---- MODULE Spec2Model ----
(***************************************************************************)
(* Model of the compression pipeline of elektron-fast-image-kompressor:    *)
(* the sequential ImageProcessor (src/imageProcessor.js:20-586), the       *)
(* 'compress-images' and 'cancel-compression' IPC handlers                 *)
(* (src/preload.js:116-229) and the filesystem they act on.                *)
(*                                                                         *)
(* Every `await` of the code is a position of the run (pc): the event loop *)
(* runs the code between two awaits without interruption, so one action is *)
(* one such block.  A cancel request is delivered by IPC (a macrotask) and *)
(* can therefore land only while the run is suspended in an await.         *)
(***************************************************************************)
EXTENDS Integers, Sequences, FiniteSets, TLC

\* ---------------------------------------------------------------- bounds
MaxFiles == 2      \* longest file list a scan returns
MaxCancels == 2    \* number of 'cancel-compression' requests

\* ------------------------------------------------------------ the inputs
Null == "null"

\* ImageFile records as the scanner builds them; `unsafe` is the value of
\* needsSanitization(name), `base` is path.basename(name, path.extname(name)).
InputFiles ==
    { [name |-> "a.jpg",   base |-> "a",   unsafe |-> FALSE],
      [name |-> "a.png",   base |-> "a",   unsafe |-> FALSE],
      [name |-> "b#1.png", base |-> "b#1", unsafe |-> TRUE] }

\* The file lists a scan can return: each file at most once, in any order.
FileLists ==
    { s \in UNION { [1..n -> InputFiles] : n \in 0..MaxFiles } :
        \A j, k \in DOMAIN s : j # k => s[j] # s[k] }

\* Paths.  DerivedPath is <input>_compressed (or compressed_images),
\* StampedPath is DerivedPath with the timestamp suffix, TempPath is the
\* staging directory next to the output directory.
DerivedPath == "out"
StampedPath == "out_stamp"
TempPath == "temp"
Dirs == {DerivedPath, StampedPath, TempPath}

\* ------------------------------------------------------------- messages
\* An error message is the sequence of its fragments; the fragment
\* "cancelled" stands for every occurrence of that text in the message.
IncludesCancelled(msg) == \E k \in 1..Len(msg) : msg[k] = "cancelled"

MsgScanCancelled == <<"Folder scanning was", "cancelled", "by user">>
MsgScanFailed(m) == <<"Failed to scan folder:">> \o m
MsgCancelledDuringScan == <<"Processing", "cancelled", "during scan">>
MsgNoImages == <<"No supported image files found in the selected folder">>
MsgCancelledDuringMeasure == <<"Processing", "cancelled", "during input measurement">>
MsgCancelledBeforeCreate == <<"Cancelled before creating output folder">>
MsgCancelledDuringCreate == <<"Processing", "cancelled", "during output folder creation">>
MsgCancelledByUser == <<"Processing was", "cancelled", "by user">>
MsgFolderRemoved == <<"Output folder was removed - processing", "cancelled">>
MsgCancelledBeforeSharp == <<"Processing", "cancelled", "before Sharp processing">>
MsgCancelledAfterSharp == <<"Processing", "cancelled", "after Sharp processing">>
MsgCancelledBeforeSanitized == <<"Processing", "cancelled", "before sanitized Sharp processing">>
MsgCancelledAfterSanitized == <<"Processing", "cancelled", "after sanitized Sharp processing">>
MsgMustMeasure == <<"Must measure both input and output sizes first">>
MsgNotExist == <<"Selected folder does not exist">>
\* The same message for a folder whose path contains the text 'cancelled'.
MsgNotExistCancelledPath ==
    <<"Selected folder does not exist: /photos/", "cancelled">>
MsgProcessingFailed(m) == <<"Image processing failed:">> \o m

\* What the environment (fs, sharp) can raise.  A message of the
\* environment names the path it failed on, so it contains the text
\* 'cancelled' whenever that path does.
ErrPlain == <<"EIO">>
ErrCancelledPath == <<"ENOENT /photos/", "cancelled", "/x.png">>
EnvErrors == {ErrPlain, ErrCancelledPath}

\* The messages of sharp that processSharpClean tells apart
\* (imageProcessor.js:421-427), and what a sharp call can raise.  The three
\* are handled alike, so one of them stands for them among the errors raised.
ErrInputMissing == <<"Input file is missing">>
ErrUnsupported == <<"Input file contains unsupported image format">>
ErrPixelLimit == <<"Input image exceeds pixel limit">>
SharpErrors == EnvErrors \cup {ErrInputMissing}

\* error.message.includes(text) for a text that is one fragment.
Includes(msg, text) == \E k \in 1..Len(msg) : msg[k] = text


\* ---------------------------------------------------------------- names
\* A file name is the sequence of its characters.  The characters stand for
\* the classes the code tells apart: a word character, a character outside
\* the safe set, a blank, the underscore and the dot.
MaxStem == 3       \* longest name, without its extension
NameChars == {"a", "#", " ", "_", "."}
WordChars == {"a", "b", "d", "e", "f", "g", "i", "l", "n", "p", "s", "t", "w",
              "z", "_"}
SpaceChars == {" "}
Stems == UNION { [1..n -> NameChars] : n \in 1..MaxStem }
ExtPng == <<".", "p", "n", "g">>
ExtWebp == <<".", "w", "e", "b", "p">>
MaxAlias == 100    \* substring(0, 100) of sanitizeFileName
NoName == [stem |-> <<>>, name |-> <<>>, via |-> "none", alias |-> <<>>,
           again |-> <<>>, compressed |-> <<>>, finalPath |-> <<>>]
\* 'sanitized_file' (part_001:39).
Fallback == <<"s", "a", "n", "i", "t", "i", "z", "e", "d", "_", "f", "i", "l", "e">>

\* The positions of the dots of a name.
Dots(name) == {k \in DOMAIN name : name[k] = "."}
Max(S) == CHOOSE x \in S : \A y \in S : y <= x

\* path.extname of a name without directory part: from the last dot on,
\* empty when there is no dot, when the only dot leads, or for "..".
Extname(name) ==
    IF Dots(name) = {} \/ Max(Dots(name)) = 1 \/ name = <<".", ".">>
    THEN <<>>
    ELSE SubSeq(name, Max(Dots(name)), Len(name))

\* path.basename(name, ext) of a name without directory part.
Basename(name, ext) ==
    IF ext = name THEN <<>>
    ELSE IF /\ Len(ext) > 0
            /\ Len(ext) <= Len(name)
            /\ SubSeq(name, Len(name) - Len(ext) + 1, Len(name)) = ext
         THEN SubSeq(name, 1, Len(name) - Len(ext))
         ELSE name

\* /[^\w\s\-_.()[\]]/ matches c (imageProcessor.js:374, part_001:18).
Problematic(c) == c \notin WordChars \cup SpaceChars \cup {"-", "_", ".", "(", ")", "[", "]"}

\* needsSanitization (imageProcessor.js:373-375).
needsSanitization(name) == \E k \in DOMAIN name : Problematic(name[k])

\* .replace(problematicChars, '_')
ReplaceProblematic(s) == [k \in DOMAIN s |-> IF Problematic(s[k]) THEN "_" ELSE s[k]]

\* .replace(/\s+/g, '_'): every run of blanks becomes one underscore.  The
\* first blank of a run is kept, as an underscore; the others are dropped.
ReplaceSpaces(s) ==
    LET kept == {k \in DOMAIN s :
                    ~(s[k] \in SpaceChars /\ k > 1 /\ s[k - 1] \in SpaceChars)}
        at(m) == CHOOSE k \in kept : Cardinality({x \in kept : x <= k}) = m
    IN  [m \in 1..Cardinality(kept) |->
            IF s[at(m)] \in SpaceChars THEN "_" ELSE s[at(m)]]

\* .replace(/^_+|_+$/g, '')
TrimUnderscores(s) ==
    LET other == {k \in DOMAIN s : s[k] # "_"}
    IN  IF other = {} THEN <<>>
        ELSE SubSeq(s, CHOOSE k \in other : \A x \in other : k <= x,
                       Max(other))

\* Variant: the underscores are trimmed before the blanks are replaced.
sanitizeFileName_TrimFirst(originalName) ==
    LET ext == Extname(originalName)
        baseName == Basename(originalName, ext)
        replaced == ReplaceSpaces(TrimUnderscores(ReplaceProblematic(baseName)))
        sanitized == SubSeq(replaced, 1, IF Len(replaced) < MaxAlias
                                          THEN Len(replaced) ELSE MaxAlias)
    IN  (IF sanitized = <<>> THEN Fallback ELSE sanitized) \o ext

\* Variant: no fallback for a base that sanitizes to nothing.
sanitizeFileName_NoFallback(originalName) ==
    LET ext == Extname(originalName)
        baseName == Basename(originalName, ext)
        replaced == ReplaceSpaces(ReplaceProblematic(baseName))
        cut == SubSeq(replaced, 1, IF Len(replaced) < MaxAlias
                                    THEN Len(replaced) ELSE MaxAlias)
    IN  TrimUnderscores(cut) \o ext

\* sanitizeFileName (part_001:24-43).
sanitizeFileName(originalName) ==
    LET ext == Extname(originalName)
        baseName == Basename(originalName, ext)
        replaced == ReplaceSpaces(ReplaceProblematic(baseName))
        cut == SubSeq(replaced, 1, IF Len(replaced) < MaxAlias
                                    THEN Len(replaced) ELSE MaxAlias)
        sanitized == TrimUnderscores(cut)
    IN  (IF sanitized = <<>> THEN Fallback ELSE sanitized) \o ext

\* Variant: the output is named after the staged copy.
SanitizedOutputName_FromAlias(name) ==
    Basename(sanitizeFileName(name), Extname(sanitizeFileName(name))) \o ExtWebp

\* outputFileName of processSharpClean (imageProcessor.js:385-386).
CleanOutputName(name) == Basename(name, Extname(name)) \o ExtWebp

\* finalName of processSharpSanitized (imageProcessor.js:450-451).
SanitizedOutputName(name) == Basename(name, Extname(name)) \o ExtWebp

\* newFileName of restoreOriginalNames (part_001:110-111).
RestoredOutputName(originalName) ==
    Basename(originalName, Extname(originalName)) \o ExtWebp

\* getOptimalChunkSize (imageProcessor.js:669-680), memory in megabytes:
\* floor(min(0.3 total, 0.5 free) / 10) clamped to 10..100.
Min(a, b) == IF a <= b THEN a ELSE b
getOptimalChunkSize(totalMemory, freeMemory) ==
    LET optimalChunkSize == Min((3 * totalMemory) \div 100, freeMemory \div 20)
    IN  IF optimalChunkSize > 100 THEN 100
        ELSE IF optimalChunkSize < 10 THEN 10 ELSE optimalChunkSize
\* What os.totalmem() and os.freemem() report, in megabytes.
MemorySizes == {256, 8192}

\* ---------------------------------------------------------------- state
VARIABLES
    pc,                \* the await the run is suspended in ("idle", "done")
    i,                 \* loop index of processSharpSequential (1-based)
    imageFiles,        \* the scanned file list
    results,           \* the results list of processSharpSequential
    pendingError,      \* the error processImages throws after its cleanup
    outputPath,        \* local outputPath of createOutputFolder/processImages
    isCancelled,       \* ImageProcessor.isCancelled
    processedCount,    \* ImageProcessor.processedCount
    currentOutputPath, \* ImageProcessor.currentOutputPath
    tempDirectories,   \* ImageProcessor.tempDirectories
    tempDirCreated,    \* local tempDirCreated of processSharpSequential
    inputStats,        \* FileSizeAnalyzer.inputStats  (Null or "set")
    outputStats,       \* FileSizeAnalyzer.outputStats (Null or "set")
    piResult,          \* how processImages settled
    currentProcessor,  \* main.js currentProcessor
    handlerResult,     \* what the 'compress-images' handler returned
    cpc,               \* position of each 'cancel-compression' request
    dirs,              \* filesystem: the directories that exist
    outFiles,          \* filesystem: files in the run's output directory
    tmpFile,           \* filesystem: the staged copy exists
    undeletable,       \* environment: directories fs.rm fails on
    stats,             \* how calculateStats settled, if it was the last call
    recorded,          \* the snapshots recorded since the last reset
    nm,                \* a scanned name and the output name derived from it
    chunkSize,         \* batch processImages: local chunkSize
    processedFiles,    \* batch processImages: local processedFiles
    indivI,            \* processIndividually: loop index i (1-based)
    chunkResults,      \* processIndividually: local results
    codecFiles,        \* processChunk: files, what the codec returned
    winPaths,          \* environment: path.join separates with a backslash
    stagingDirs,       \* processIndividually: the staging directories that exist
    san,               \* FileNameSanitizer: its mapping and the call in progress
    scan,              \* scanForImages: the folder and the call in progress
    timing,            \* ImageProcessor.avgProcessingTime and the samples taken
    conv,              \* the scanned files of a run and the paths written for them
    inv,               \* main process: the compress-images invocations
    ui,                \* renderer: its flags and its progress listener
    prog,              \* the progress events of a run, in the order emitted
    h                  \* history of the run, read only by the properties

runVars == <<pc, i, imageFiles, results, pendingError, outputPath>>
procVars == <<isCancelled, processedCount, currentOutputPath,
              tempDirectories, tempDirCreated>>
analyzerVars == <<inputStats, outputStats>>
handlerVars == <<piResult, currentProcessor, handlerResult>>
fsVars == <<dirs, outFiles, tmpFile>>
sizeVars == <<stats, recorded>>
batchVars == <<chunkSize, processedFiles, indivI, chunkResults, codecFiles,
               winPaths, stagingDirs>>
auxVars == <<timing, conv, inv, ui, prog>>
envVars == <<undeletable, sizeVars, nm, batchVars, san, scan, auxVars>>
vars == <<runVars, procVars, analyzerVars, handlerVars, cpc, fsVars,
          envVars, h>>

\* avgProcessingTime as the constructor leaves it (imageProcessor.js:31): a
\* number of milliseconds, kept as the fraction num/den.  samples counts the
\* calls of updateProcessingStats in the run, latest is the last sample,
\* total the length of the file list of the run.
NewTiming ==
    [pc |-> "idle", avgProcessingTime |-> [num |-> 0, den |-> 1],
     samples |-> 0, latest |-> 0, total |-> 0]

\* No file list scanned, no output written.
NewConv == [pc |-> "idle", imageFiles |-> <<>>, results |-> <<>>]

MaxInvocations == 2   \* compress-images invocations that can overlap

\* The main process after start-up (preload.js:1-30): no invocation of the
\* compress-images handler yet.  Invocations are numbered from 1, and
\* currentProcessor is the number of the invocation whose processor it
\* refers to, 0 for null.  answer is what the last cancel-compression
\* request was answered, with the invocations in progress when it arrived.
NewInv ==
    [state |-> [r \in 1..MaxInvocations |-> "idle"],
     isCancelled |-> [r \in 1..MaxInvocations |-> FALSE],
     currentProcessor |-> 0,
     answer |-> [kind |-> "none", target |-> 0, inProgress |-> {}]]

\* The renderer once its script has run (renderer.js:60-61, 380-390): one
\* listener on 'compression-progress', the drop zone shown.  started counts
\* the compressions started in the window session; sent and shown count,
\* for the compression in progress, the events the main process sent and
\* the calls of updateProgress made for them.
NewUi ==
    [isProcessing |-> FALSE, isCancelling |-> FALSE, listeners |-> 1,
     section |-> "drop", started |-> 0, sent |-> 0, shown |-> 0]

\* No run started, no event emitted.  total is imageFiles.length, successful
\* the number of Success results so far.
NewProg ==
    [pc |-> "idle", total |-> 0, successful |-> 0, events |-> <<>>]

AuxIdle ==
    /\ prog = NewProg
    /\ timing = NewTiming
    /\ conv = NewConv
    /\ inv = NewInv
    /\ ui = NewUi

\* FileNameSanitizer as constructed (part_001:16-21), no call made.  last is
\* how the last call ended, the other fields besides tempFileMap are the
\* arguments and locals of the call in progress.
NewSanitizer ==
    [pc |-> "ready", last |-> "none", tempFileMap |-> {}, imageFiles |-> <<>>,
     k |-> 0, tempFiles |-> <<>>, processedFiles |-> <<>>,
     restoredFiles |-> <<>>, copyFailed |-> {}, rmFailed |-> FALSE]

\* No call of scanForImages made: root is the listing of the folder, pending
\* the directory whose fs.readdir is awaited, stack the loops of
\* scanRecursively that wait for a nested call.
NewScan ==
    [pc |-> "idle", root |-> <<>>, pending |-> <<>>, stack |-> <<>>,
     imageFiles |-> <<>>, error |-> <<>>]

\* The locals of the batch strategy before a batch run.
BatchIdle ==
    /\ chunkSize = 0
    /\ processedFiles = 0
    /\ indivI = 0
    /\ chunkResults = <<>>
    /\ codecFiles = <<>>
    /\ winPaths = FALSE
    /\ stagingDirs = {}

Processor == "processor"

\* The phases of spec section 4.3, by position of the run.
ScanningPcs == {"scan"}
MeasuringInputPcs == {"measureIn"}
CreatingOutputPcs == {"co_stat", "co_access", "co_mkdir"}
ConvertingPcs == {"access", "mkTemp", "copy", "codec", "codecS",
                  "unlinkTemp", "rmTemp"}
MeasuringOutputPcs == {"measureOut"}
CleanupPcs == {"cleanA_rmTemp", "cleanA_rmOut", "cleanB_rmTemp", "cleanB_rmOut"}
RunningPcs == ScanningPcs \cup MeasuringInputPcs \cup CreatingOutputPcs
              \cup ConvertingPcs \cup MeasuringOutputPcs \cup CleanupPcs

\* ------------------------------------------------------- result records
\* What the 'compress-images' handler hands to its caller.  kind "none":
\* not settled; kind "rejected": the promise of the handler rejects, which
\* nothing in the code does.  compressionStats is Null or "stats".
NoResult == [kind |-> "none", success |-> FALSE, cancelled |-> FALSE,
             error |-> <<>>, processedFiles |-> 0, totalFiles |-> 0,
             compressionStats |-> Null]
CancelledOutcome ==
    [kind |-> "cancelled", success |-> FALSE, cancelled |-> TRUE,
     error |-> <<"Compression was cancelled by user">>,
     processedFiles |-> 0, totalFiles |-> 0, compressionStats |-> Null]
ErrorOutcome(msg) ==
    [kind |-> "error", success |-> FALSE, cancelled |-> FALSE,
     error |-> msg, processedFiles |-> 0, totalFiles |-> 0,
     compressionStats |-> Null]
SuccessOutcome(r) ==
    [kind |-> "success", success |-> TRUE, cancelled |-> FALSE,
     error |-> <<>>, processedFiles |-> r.processedFiles,
     totalFiles |-> r.totalFiles, compressionStats |-> r.compressionStats]
Rejected(msg) ==
    [kind |-> "rejected", success |-> Null, cancelled |-> FALSE,
     error |-> msg, processedFiles |-> 0, totalFiles |-> 0,
     compressionStats |-> Null]

PiNone == [kind |-> "none", error |-> <<>>, processedFiles |-> 0,
           totalFiles |-> 0, results |-> <<>>, compressionStats |-> Null]
PiThrew(msg) == [kind |-> "threw", error |-> msg, processedFiles |-> 0,
                 totalFiles |-> 0, results |-> <<>>,
                 compressionStats |-> Null]

SuccessResult(file) ==
    [original |-> file.name, success |-> TRUE, compressed |-> file.base,
     error |-> <<>>]
FailureResult(file, msg) ==
    [original |-> file.name, success |-> FALSE, compressed |-> "",
     error |-> msg]

Successful(rs) == Cardinality({k \in DOMAIN rs : rs[k].success})

\* processImages' return value (imageProcessor.js:238-254).
PiReturned(rs) ==
    [kind |-> "returned", error |-> <<>>, processedFiles |-> Successful(rs),
     totalFiles |-> Len(imageFiles), results |-> rs,
     compressionStats |-> "stats"]

\* -------------------------------------------------------------- cleanup
\* performCleanup is a sequence of fs.rm calls.  A phase is the rm call it
\* is suspended in; "done" is its return.
\* Variant: the output directory is removed when files were processed.
CleanupSecond_Inverted(cop, cnt) ==
    IF cop # Null /\ cnt # 0 THEN "rmOut" ELSE "done"

CleanupSecond(cop, cnt) ==
    IF cop # Null /\ cnt = 0 THEN "rmOut" ELSE "done"

\* Variant: the cleanup passes over the staging directories.
CleanupFirst_OutputOnly(tds, cop, cnt) == CleanupSecond(cop, cnt)

CleanupFirst(tds, cop, cnt) ==
    IF Len(tds) > 0 THEN "rmTemp" ELSE CleanupSecond(cop, cnt)

\* Variant: without the try/catch, a failed removal escapes performCleanup.
CleanupAfterRm_Uncaught(ph, ok, cop, cnt) ==
    IF ~ok THEN "threw"
    ELSE IF ph = "rmTemp" THEN CleanupSecond(cop, cnt) ELSE "done"

\* Variant: the cleanup gives up at the first removal that fails.
CleanupAfterRm_StopOnFailure(ph, ok, cop, cnt) ==
    IF ~ok THEN "done"
    ELSE IF ph = "rmTemp" THEN CleanupSecond(cop, cnt) ELSE "done"

\* performCleanup's try/catch around each fs.rm: a failed removal is
\* logged and the cleanup goes on with the next directory.
CleanupAfterRm(ph, ok, cop, cnt) ==
    IF ph = "rmTemp" THEN CleanupSecond(cop, cnt) ELSE "done"

\* An error escaping performCleanup; nothing in the code raises it.
MsgCleanupFailed == <<"EPERM">>

\* fs.rm(d, {recursive, force}) on the filesystem f = [dirs, outFiles,
\* tmpFile]: the filesystem afterwards and whether the call succeeded.
\* With force, removing a directory that does not exist succeeds.
RmOn(d, f) ==
    IF d \in undeletable /\ d \in f.dirs
    THEN [ok |-> FALSE, dirs |-> f.dirs, outFiles |-> f.outFiles,
          tmpFile |-> f.tmpFile]
    ELSE [ok |-> TRUE, dirs |-> f.dirs \ {d},
          outFiles |-> IF d = currentOutputPath THEN {} ELSE f.outFiles,
          tmpFile |-> IF d = TempPath THEN FALSE ELSE f.tmpFile]

Fs == [dirs |-> dirs, outFiles |-> outFiles, tmpFile |-> tmpFile]

Rm(d) == RmOn(d, Fs)

\* The directory a cleanup phase removes.
CleanupTarget(ph) == IF ph = "rmTemp" THEN TempPath ELSE currentOutputPath

ApplyRm(r) ==
    /\ dirs' = r.dirs
    /\ outFiles' = r.outFiles
    /\ tmpFile' = r.tmpFile


\* -------------------------------------------------------------- progress
\* The argument of the progress callback.  percent is current/total*100,
\* kept as the integer below it; message is the kind of the message text.
ProgressEvent(current, total, percent, message) ==
    [current |-> current, total |-> total, percent |-> percent,
     message |-> message]

\* updateProgress (imageProcessor.js:533-542): the calls of the progress
\* callback it makes for the event ev.
UpdateProgress(ev) == IF isCancelled THEN <<>> ELSE <<ev>>

\* progressCallback of the handler (preload.js:142-155): of the events it
\* is called with, those it passes to event.sender.send when its throttle
\* lets them through.
ProgressCallback(evs) == IF isCancelled THEN <<>> ELSE evs

\* sendFinalProgress (preload.js:158-163) may send the last event.
SendFinalProgress == ~isCancelled

\* The event after file i was pushed with cnt files processed before it
\* (imageProcessor.js:327-338).
FileEvent(cnt) ==
    ProgressEvent(cnt + 1, Len(imageFiles),
                  ((cnt + 1) * 100) \div Len(imageFiles), "file")

\* -------------------------------------------------------- control flow
\* The code between two awaits runs to the next await.  A continuation is
\* where that block ends: the next position of the run with the values the
\* block computed on the way (loop index, results, processedCount, the
\* pending error, how processImages and the handler settled, the calls of
\* the progress callback it made (ev), the number of its calls of
\* updateProcessingStats (est), whether it called sendFinalProgress (fin)).
Cont(p, j, rs, cnt) ==
    [pc |-> p, i |-> j, results |-> rs, cnt |-> cnt, err |-> <<>>,
     pi |-> piResult, res |-> handlerResult, reset |-> FALSE, cl |-> 0,
     ev |-> <<>>, est |-> 0, fin |-> FALSE]

\* Variant: the handler does not look at processor.isCancelled.
HandlerReturn_NoCancelCheck(r, rs, cnt) ==
    [Cont("done", i, rs, cnt) EXCEPT !.pi = r, !.res = SuccessOutcome(r)]

\* The 'compress-images' handler after processImages returned r
\* (preload.js:165-187).
HandlerReturn(r, rs, cnt) ==
    [Cont("done", i, rs, cnt) EXCEPT
        !.pi = r,
        !.res = IF isCancelled THEN CancelledOutcome ELSE SuccessOutcome(r),
        !.fin = ~isCancelled]

\* Variant: the handler has no catch, the error escapes it.
CatchOutcome_Rethrown(msg) == Rejected(msg)

\* What the handler's catch returns for an error with message msg
\* (preload.js:189-205).
CatchOutcome(msg) ==
    IF isCancelled \/ IncludesCancelled(msg)
    THEN CancelledOutcome ELSE ErrorOutcome(msg)

\* The handler's catch (preload.js:189-205) for an error thrown by
\* processImages, whose catch has reset the size analyzer.
HandlerCatch(msg, rs, cnt) ==
    [Cont("done", i, rs, cnt) EXCEPT
        !.pi = PiThrew(msg),
        !.res = CatchOutcome(msg),
        !.reset = TRUE]

\* processImages' catch (imageProcessor.js:256-265): reset the analyzer, run
\* performCleanup on a cancellation, rethrow wrapped.
ProcessImagesCatch(msg, rs, cnt, tds, cop) ==
    IF isCancelled \/ IncludesCancelled(msg)
    THEN LET ph == CleanupFirst(tds, cop, cnt) IN
         IF ph = "done"
         THEN [HandlerCatch(MsgProcessingFailed(msg), rs, cnt) EXCEPT !.cl = 1]
         ELSE [Cont(IF ph = "rmTemp" THEN "cleanB_rmTemp" ELSE "cleanB_rmOut",
                    i, rs, cnt) EXCEPT !.err = msg, !.reset = TRUE]
    ELSE HandlerCatch(MsgProcessingFailed(msg), rs, cnt)

\* Variant: processImages goes on to the statistics and reports their
\* progress without looking at the flag.
AfterSequential_Unchecked(rs, cnt, tds) ==
    [Cont("measureOut", i, rs, cnt) EXCEPT
        !.ev = <<ProgressEvent(Successful(rs), Len(imageFiles), 100, "stats")>>]

\* processImages after processSharpSequential returned rs
\* (imageProcessor.js:232-240): cleanup and throw on cancellation, else go
\* on to measure the outputs.
AfterSequential(rs, cnt, tds) ==
    IF isCancelled
    THEN LET ph == CleanupFirst(tds, currentOutputPath, cnt) IN
         IF ph = "done"
         THEN [ProcessImagesCatch(MsgCancelledByUser, rs, cnt, tds,
                                  currentOutputPath) EXCEPT !.cl = @ + 1]
         ELSE Cont(IF ph = "rmTemp" THEN "cleanA_rmTemp" ELSE "cleanA_rmOut",
                   i, rs, cnt)
    ELSE [Cont("measureOut", i, rs, cnt) EXCEPT
             !.ev = UpdateProgress(ProgressEvent(Successful(rs),
                                       Len(imageFiles), 100, "stats"))]

\* processSharpSequential after its loop (imageProcessor.js:358-369).
AfterLoop(rs, cnt, tdc, tds) ==
    IF tdc /\ ~isCancelled
    THEN Cont("rmTemp", i, rs, cnt)
    ELSE AfterSequential(rs, cnt, tds)

\* Top of iteration j of the loop (imageProcessor.js:281-300): leave the loop
\* at the end of the list or on cancellation, else fs.access(outputPath).
Iteration(j, rs, cnt, tdc, tds) ==
    IF j > Len(imageFiles) \/ isCancelled
    THEN AfterLoop(rs, cnt, tdc, tds)
    ELSE Cont("access", j, rs, cnt)

\* The per-file catch of the loop (imageProcessor.js:341-355).
SequentialCatch(msg, tdc, tds) ==
    IF isCancelled \/ IncludesCancelled(msg)
    THEN AfterLoop(results, processedCount, tdc, tds)
    ELSE Iteration(i + 1,
                   Append(results, FailureResult(imageFiles[i], msg)),
                   processedCount + 1, tdc, tds)

\* results.push(result) and what follows it (imageProcessor.js:321-339).
SequentialPush(tdc, tds) ==
    LET k == Iteration(i + 1, Append(results, SuccessResult(imageFiles[i])),
                       processedCount + 1, tdc, tds)
    IN  [k EXCEPT !.ev = UpdateProgress(FileEvent(processedCount)) \o @,
                  !.est = @ + 1]

\* processSharpClean's catch (imageProcessor.js:415-431).
CleanCatch(msg) ==
    IF isCancelled \/ IncludesCancelled(msg)
    THEN msg
    ELSE IF Includes(msg, "Input file is missing")
    THEN <<"File not found:", imageFiles[i].name>>
    ELSE IF Includes(msg, "Input file contains unsupported image format")
    THEN <<"Unsupported format in", imageFiles[i].name>>
    ELSE IF Includes(msg, "Input image exceeds pixel limit")
    THEN <<"Image too large:", imageFiles[i].name>>
    ELSE <<"Sharp processing failed for", imageFiles[i].name>> \o msg

\* processSharpSanitized's catch (imageProcessor.js:487-494).
SanitizedCatch(msg) ==
    IF isCancelled \/ IncludesCancelled(msg)
    THEN msg
    ELSE <<"Sharp sanitized processing failed for", imageFiles[i].name>> \o msg

\* processSharpClean up to its codec call (imageProcessor.js:378-395).
CleanStart(tdc, tds) ==
    IF isCancelled
    THEN SequentialCatch(CleanCatch(MsgCancelledBeforeSharp), tdc, tds)
    ELSE Cont("codec", i, results, processedCount)

\* processSharpSanitized up to its copyFile (imageProcessor.js:435-447).
SanitizedStart(tdc, tds) ==
    IF isCancelled
    THEN SequentialCatch(SanitizedCatch(MsgCancelledBeforeSanitized), tdc, tds)
    ELSE Cont("copy", i, results, processedCount)

\* The history after the run took continuation k.
Hist(k, hh) ==
    [hh EXCEPT
        !.attempted = IF k.pc = "access" THEN k.i ELSE @,
        !.codecAfterCancel = @ \/ (k.pc \in {"codec", "codecS"} /\ isCancelled),
        !.runCleanups = @ + k.cl,
        !.cbAfterCancel = @ \/ (isCancelled /\ Len(k.ev) > 0),
        !.sentAfterCancel = @ \/ (isCancelled /\
              (Len(ProgressCallback(k.ev)) > 0 \/ (k.fin /\ SendFinalProgress))),
        !.fileEvents = @ + Cardinality({n \in DOMAIN k.ev :
                                           k.ev[n].message = "file"}),
        !.estUpdates = @ + k.est]

\* The run takes continuation k; inS and outS are the analyzer snapshots
\* the block left behind.
Goto(k, inS, outS) ==
    /\ pc' = k.pc
    /\ i' = k.i
    /\ results' = k.results
    /\ processedCount' = k.cnt
    /\ pendingError' = k.err
    /\ piResult' = k.pi
    /\ handlerResult' = k.res
    /\ currentProcessor' = IF k.pc = "done" THEN Null ELSE Processor
    /\ inputStats' = IF k.reset THEN Null ELSE inS
    /\ outputStats' = IF k.reset THEN Null ELSE outS


\* ----------------------------------------------------------------- Init
\* The state after `new ImageProcessor()` (imageProcessor.js:21-39) and the
\* module state of main.js (preload.js:63-64), on a filesystem where the
\* derived output path, or both it and its timestamped variant, may exist.
HistoryInit ==
    [cancelPc |-> "none",        \* position of the run at the first cancel
     cancelK |-> -1,             \* Len(results) at the first cancel
     codecAfterCancel |-> FALSE, \* a codec call was started after a cancel
     inFlight |-> {},            \* files whose codec call a cancel landed in
     cancelSucc |-> -1,          \* successful results at the first cancel
     written |-> {},             \* those of inFlight whose call wrote its output
     codecFailed |-> {},         \* <<file, message thrown>> of uncancelled codec failures
     folderMissing |-> FALSE,    \* an iteration found the output directory gone
     attempted |-> 0,            \* iterations that reached fs.access
     rmFailed |-> FALSE,         \* an fs.rm of a directory failed
     unlinkFailed |-> FALSE,     \* a removal of an output file failed
     extRemoved |-> FALSE,       \* the output directory was removed outside
     createdOut |-> FALSE,       \* the run's mkdir created the output directory
     runCleanups |-> 0,          \* performCleanup calls the run completed
     cbAfterCancel |-> FALSE,    \* the callback was called with the flag set
     sentAfterCancel |-> FALSE,  \* the handler could send with the flag set
     fileEvents |-> 0,           \* per-file events that reached the callback
     estUpdates |-> 0,           \* calls of updateProcessingStats
     scanEmpty |-> FALSE,        \* the scan ended with an empty file list
     dirs0 |-> {}]               \* the directories that existed before the run

Init ==
    /\ pc = "idle"
    /\ i = 0
    /\ imageFiles = <<>>
    /\ results = <<>>
    /\ pendingError = <<>>
    /\ outputPath = Null
    /\ isCancelled = FALSE
    /\ processedCount = 0
    /\ currentOutputPath = Null
    /\ tempDirectories = <<>>
    /\ tempDirCreated = FALSE
    /\ inputStats = Null
    /\ outputStats = Null
    /\ piResult = PiNone
    /\ currentProcessor = Null
    /\ handlerResult = NoResult
    /\ cpc = [c \in 1..MaxCancels |-> "idle"]
    /\ dirs \in {{}, {DerivedPath}, {DerivedPath, StampedPath}}
    /\ outFiles = {}
    /\ tmpFile = FALSE
    /\ undeletable \in SUBSET {TempPath, DerivedPath}
    /\ h = [HistoryInit EXCEPT !.dirs0 = dirs]
    /\ stats = [kind |-> "none"]
    /\ recorded = {}
    /\ nm = NoName
    /\ BatchIdle
    /\ san = NewSanitizer
    /\ scan = NewScan
    /\ AuxIdle

\* ------------------------------------------------- the handler and scan
\* processImages up to its first await: the reset of the run state and the
\* call of scanForImages up to fs.readdir (imageProcessor.js:182-194, 101-112).
ProcessImagesStart ==
    LET k == [Cont("scan", 0, <<>>, 0) EXCEPT
                 !.ev = UpdateProgress(ProgressEvent(0, 0, 0, "scan"))]
    IN  /\ Goto(k, inputStats, outputStats)
        /\ h' = Hist(k, h)
        /\ isCancelled' = FALSE
        /\ currentOutputPath' = Null
        /\ tempDirectories' = <<>>

\* ipcMain.handle('compress-images') up to the first await of processImages
\* (preload.js:116-165, imageProcessor.js:182-194, 101-112).
HandlerStart ==
    /\ pc = "idle"
    /\ \/ \* fs.existsSync(normalizedPath) is false: thrown inside the try
          /\ \E msg \in {MsgNotExist, MsgNotExistCancelledPath} :
                Goto([Cont("done", 0, <<>>, 0) EXCEPT
                         !.res = CatchOutcome(msg)],
                     inputStats, outputStats)
          /\ UNCHANGED <<isCancelled, currentOutputPath, tempDirectories>>
          /\ UNCHANGED h
       \/ ProcessImagesStart
    /\ UNCHANGED <<imageFiles, outputPath, tempDirCreated, cpc, fsVars,
                   envVars>>

\* createOutputFolder up to its first await (imageProcessor.js:151-156).
CreateOutputFolderStart(rs, cnt) ==
    IF isCancelled
    THEN ProcessImagesCatch(MsgCancelledBeforeCreate, rs, cnt,
                            tempDirectories, currentOutputPath)
    ELSE Cont("co_stat", i, rs, cnt)

\* The error scanForImages throws for an error e of its walk
\* (imageProcessor.js:142-147).
ScanCatch(e) ==
    IF isCancelled \/ IncludesCancelled(e)
    THEN MsgScanCancelled ELSE MsgScanFailed(e)

\* Variant: processImages does not look at the number of files found.
AfterScan_NoEmptyCheck(fl, msg) ==
    IF isCancelled
    THEN ProcessImagesCatch(msg, results, processedCount,
                            tempDirectories, currentOutputPath)
    ELSE [Cont("measureIn", i, results, processedCount)
            EXCEPT !.ev = UpdateProgress(
                ProgressEvent(0, Len(fl), 0, "measure"))]

\* processImages after scanForImages ended (imageProcessor.js:194-211): fl
\* is the list found, msg the error that a cancelled scan ends with.
AfterScan(fl, msg) ==
    IF isCancelled
    THEN ProcessImagesCatch(msg, results, processedCount,
                            tempDirectories, currentOutputPath)
    ELSE IF Len(fl) = 0
    THEN ProcessImagesCatch(MsgNoImages, results,
           processedCount, tempDirectories, currentOutputPath)
    ELSE [Cont("measureIn", i, results, processedCount)
            EXCEPT !.ev = UpdateProgress(
                ProgressEvent(0, Len(fl), 0, "measure"))]

\* scanForImages resumes from fs.readdir (imageProcessor.js:112-148), then
\* processImages up to measureInputSizes (imageProcessor.js:196-211).
\* fl are the supported images among the entries read, otherEntries tells
\* whether the directory holds other entries.
ScanDone ==
    /\ pc = "scan"
    /\ \/ \E e \in EnvErrors :
            LET k == ProcessImagesCatch(ScanCatch(e), results, processedCount,
                                        tempDirectories, currentOutputPath)
            IN  /\ Goto(k, inputStats, outputStats)
                /\ h' = Hist(k, h)
                /\ UNCHANGED imageFiles
       \/ \E fl \in FileLists, otherEntries \in BOOLEAN :
            LET msg == IF Len(fl) > 0 \/ otherEntries
                       THEN ScanCatch(<<"Scanning", "cancelled", "by user">>)
                       ELSE MsgCancelledDuringScan
                k == AfterScan(fl, msg)
            IN  /\ Goto(k, inputStats, outputStats)
                /\ h' = [Hist(k, h) EXCEPT !.scanEmpty = (Len(fl) = 0)]
                /\ imageFiles' = IF isCancelled THEN imageFiles ELSE fl
    /\ UNCHANGED <<outputPath, isCancelled, currentOutputPath,
                   tempDirectories, tempDirCreated, cpc, fsVars, envVars>>

\* measureInputSizes returned (part_000:21-60); processImages up to the
\* first await of createOutputFolder (imageProcessor.js:213-219).
MeasureInDone ==
    /\ pc = "measureIn"
    /\ LET k == IF isCancelled
                THEN ProcessImagesCatch(MsgCancelledDuringMeasure, results,
                       processedCount, tempDirectories, currentOutputPath)
                ELSE [CreateOutputFolderStart(results, processedCount)
                        EXCEPT !.ev = UpdateProgress(ProgressEvent(0,
                                   Len(imageFiles), 0, "create")) \o @]
       IN  /\ Goto(k, "set", outputStats)
           /\ h' = Hist(k, h)
    /\ UNCHANGED <<imageFiles, outputPath, isCancelled, currentOutputPath,
                   tempDirectories, tempDirCreated, cpc, fsVars, envVars>>

\* createOutputFolder: fs.stat(inputPath) returned (imageProcessor.js:156-169).
CoStatDone ==
    /\ pc = "co_stat"
    /\ \E k \in { ProcessImagesCatch(e, results, processedCount,
                      tempDirectories, currentOutputPath) : e \in EnvErrors }
               \cup { Cont("co_access", i, results, processedCount) } :
          /\ Goto(k, inputStats, outputStats)
          /\ h' = Hist(k, h)
    /\ UNCHANGED <<imageFiles, outputPath, isCancelled, currentOutputPath,
                   tempDirectories, tempDirCreated, cpc, fsVars, envVars>>

\* createOutputFolder: fs.access(outputPath) returned; the timestamp suffix
\* is appended when the derived path exists (imageProcessor.js:168-176).
CoAccessDone ==
    /\ pc = "co_access"
    /\ outputPath' = IF DerivedPath \in dirs THEN StampedPath ELSE DerivedPath
    /\ Goto(Cont("co_mkdir", i, results, processedCount),
            inputStats, outputStats)
    /\ UNCHANGED <<imageFiles, isCancelled, currentOutputPath,
                   tempDirectories, tempDirCreated, cpc, fsVars, envVars, h>>

\* createOutputFolder: fs.mkdir returned (imageProcessor.js:176-178); then
\* processImages up to the first await of processSharpSequential
\* (imageProcessor.js:221-230, 269-300).
CoMkdirDone ==
    /\ pc = "co_mkdir"
    /\ \/ \E e \in EnvErrors :
            LET k == ProcessImagesCatch(e, results, processedCount,
                                        tempDirectories, currentOutputPath)
            IN  /\ Goto(k, inputStats, outputStats)
                /\ h' = Hist(k, h)
                /\ UNCHANGED <<currentOutputPath, dirs>>
       \/ LET k == IF isCancelled
                   THEN ProcessImagesCatch(MsgCancelledDuringCreate, results,
                          processedCount, tempDirectories, outputPath)
                   ELSE Iteration(1, <<>>, processedCount, FALSE,
                                  tempDirectories)
          IN  /\ dirs' = dirs \cup {outputPath}
              /\ currentOutputPath' = outputPath
              /\ Goto(k, inputStats, outputStats)
              /\ h' = [Hist(k, h) EXCEPT !.createdOut = outputPath \notin dirs]
    /\ tempDirCreated' = FALSE
    /\ UNCHANGED <<imageFiles, outputPath, isCancelled, tempDirectories,
                   cpc, outFiles, tmpFile, envVars>>


\* ------------------------------------------------------------ converting
\* Iteration i: fs.access(outputPath) returned (imageProcessor.js:298-319).
\* The absence of the output directory is thrown inside the per-file try.
AccessDone ==
    /\ pc = "access"
    /\ LET k == IF outputPath \notin dirs
                THEN SequentialCatch(MsgFolderRemoved, tempDirCreated,
                                     tempDirectories)
                ELSE IF imageFiles[i].unsafe
                THEN IF ~tempDirCreated
                     THEN Cont("mkTemp", i, results, processedCount)
                     ELSE SanitizedStart(tempDirCreated, tempDirectories)
                ELSE CleanStart(tempDirCreated, tempDirectories)
       IN  /\ Goto(k, inputStats, outputStats)
           /\ h' = [Hist(k, h) EXCEPT
                      !.folderMissing = @ \/ outputPath \notin dirs]
    /\ UNCHANGED <<imageFiles, outputPath, isCancelled, currentOutputPath,
                   tempDirectories, tempDirCreated, cpc, fsVars, envVars>>

\* fs.mkdir(tempDir) returned (imageProcessor.js:310-316).
MkTempDone ==
    /\ pc = "mkTemp"
    /\ \/ \E e \in EnvErrors :
            LET k == SequentialCatch(e, tempDirCreated, tempDirectories)
            IN  /\ Goto(k, inputStats, outputStats)
                /\ h' = Hist(k, h)
                /\ UNCHANGED <<tempDirCreated, tempDirectories, dirs>>
       \/ LET tds == Append(tempDirectories, TempPath)
              k == SanitizedStart(TRUE, tds)
          IN  /\ dirs' = dirs \cup {TempPath}
              /\ tempDirCreated' = TRUE
              /\ tempDirectories' = tds
              /\ Goto(k, inputStats, outputStats)
              /\ h' = Hist(k, h)
    /\ UNCHANGED <<imageFiles, outputPath, isCancelled, currentOutputPath,
                   cpc, outFiles, tmpFile, envVars>>

\* fs.copyFile(file.fullPath, tempPath) returned; the codec is then called
\* on the staged copy (imageProcessor.js:447-460).
CopyDone ==
    /\ pc = "copy"
    /\ \/ \E e \in EnvErrors :
            LET k == SequentialCatch(SanitizedCatch(e), tempDirCreated,
                                     tempDirectories)
            IN  /\ Goto(k, inputStats, outputStats)
                /\ h' = Hist(k, h)
                /\ UNCHANGED tmpFile
       \/ LET k == Cont("codecS", i, results, processedCount)
          IN  /\ tmpFile' = (TempPath \in dirs)
              /\ Goto(k, inputStats, outputStats)
              /\ h' = Hist(k, h)
    /\ UNCHANGED <<imageFiles, outputPath, isCancelled, currentOutputPath,
                   tempDirectories, tempDirCreated, cpc, dirs, outFiles,
                   envVars>>

\* The files of the output directory after sharp wrote the output of file.
Written(file) ==
    IF outputPath \in dirs THEN outFiles \cup {file.base} ELSE outFiles

\* Variant: the output of the file in flight is not unlinked.
UnlinkOutput_Skipped(files, file, fails) == files

\* fs.unlink of an output file, whose failure (fails) the code ignores
\* (imageProcessor.js:400-404, 472-476).
UnlinkOutput(files, file, fails) ==
    IF fails THEN files ELSE files \ {file.base}

\* The final cancellation check of processSharpClean/processSharpSanitized
\* (imageProcessor.js:397-413, 469-485): fo are the files of the output
\* directory before the check, thrown the error that leaves the function on
\* cancellation, fails whether the fs.unlink fails.  Yields the files
\* afterwards and the continuation.
FinalCheck(fo, thrown, fails) ==
    IF isCancelled
    THEN [files |-> UnlinkOutput(fo, imageFiles[i], fails),
          k |-> SequentialCatch(thrown, tempDirCreated, tempDirectories)]
    ELSE [files |-> fo,
          k |-> SequentialPush(tempDirCreated, tempDirectories)]

\* sharp(file.fullPath).webp().toFile() returned in processSharpClean
\* (imageProcessor.js:393-431).
CodecDone ==
    /\ pc = "codec"
    /\ \/ \E e \in SharpErrors :
            LET k == SequentialCatch(CleanCatch(e), tempDirCreated,
                                     tempDirectories)
            IN  /\ Goto(k, inputStats, outputStats)
                /\ h' = [Hist(k, h) EXCEPT
                           !.codecFailed = IF isCancelled THEN @
                                           ELSE @ \cup {<<i, CleanCatch(e)>>}]
                /\ UNCHANGED outFiles
       \/ \E fails \in BOOLEAN :
            LET fc == FinalCheck(Written(imageFiles[i]),
                                 CleanCatch(MsgCancelledAfterSharp), fails)
            IN  /\ outFiles' = fc.files
                /\ Goto(fc.k, inputStats, outputStats)
                /\ h' = [Hist(fc.k, h) EXCEPT
                           !.written = IF i \in h.inFlight THEN @ \cup {i} ELSE @,
                           !.unlinkFailed = @ \/ (isCancelled /\ fails
                                /\ imageFiles[i].base \in fc.files)]
    /\ UNCHANGED <<imageFiles, outputPath, isCancelled, currentOutputPath,
                   tempDirectories, tempDirCreated, cpc, dirs, tmpFile,
                   envVars>>

\* sharp(tempPath).webp().toFile() returned in processSharpSanitized; the
\* staged copy is then unlinked (imageProcessor.js:458-467).
CodecSDone ==
    /\ pc = "codecS"
    /\ \/ \E e \in SharpErrors :
            LET k == SequentialCatch(SanitizedCatch(e), tempDirCreated,
                                     tempDirectories)
            IN  /\ Goto(k, inputStats, outputStats)
                /\ h' = [Hist(k, h) EXCEPT
                           !.codecFailed = IF isCancelled THEN @
                                           ELSE @ \cup {<<i, SanitizedCatch(e)>>}]
                /\ UNCHANGED outFiles
       \/ LET k == Cont("unlinkTemp", i, results, processedCount)
          IN  /\ outFiles' = Written(imageFiles[i])
              /\ Goto(k, inputStats, outputStats)
              /\ h' = [Hist(k, h) EXCEPT
                         !.written = IF i \in h.inFlight THEN @ \cup {i} ELSE @]
    /\ UNCHANGED <<imageFiles, outputPath, isCancelled, currentOutputPath,
                   tempDirectories, tempDirCreated, cpc, dirs, tmpFile,
                   envVars>>

\* fs.unlink(tempPath) returned, its failure ignored; then the final
\* cancellation check of processSharpSanitized (imageProcessor.js:462-485).
UnlinkTempDone ==
    /\ pc = "unlinkTemp"
    /\ \E unlinked, fails \in BOOLEAN :
         LET fc == FinalCheck(outFiles,
                              SanitizedCatch(MsgCancelledAfterSanitized),
                              fails)
         IN  /\ tmpFile' = (tmpFile /\ ~unlinked)
             /\ outFiles' = fc.files
             /\ Goto(fc.k, inputStats, outputStats)
             /\ h' = [Hist(fc.k, h) EXCEPT
                        !.unlinkFailed = @ \/ (isCancelled /\ fails
                             /\ imageFiles[i].base \in fc.files)]
    /\ UNCHANGED <<imageFiles, outputPath, isCancelled, currentOutputPath,
                   tempDirectories, tempDirCreated, cpc, dirs, envVars>>

\* The fs.rm(tempDir) that ends processSharpSequential returned
\* (imageProcessor.js:359-369), then processImages goes on.
RmTempDone ==
    /\ pc = "rmTemp"
    /\ LET r == Rm(TempPath)
           tds == IF r.ok
                  THEN SelectSeq(tempDirectories, LAMBDA d : d # TempPath)
                  ELSE tempDirectories
           k == AfterSequential(results, processedCount, tds)
       IN  /\ ApplyRm(r)
           /\ tempDirectories' = tds
           /\ Goto(k, inputStats, outputStats)
           /\ h' = [Hist(k, h) EXCEPT !.rmFailed = @ \/ ~r.ok]
    /\ UNCHANGED <<imageFiles, outputPath, isCancelled, currentOutputPath,
                   tempDirCreated, cpc, envVars>>

\* measureOutputSizes returned (part_000:63-129); calculateStats and the
\* return of processImages (imageProcessor.js:240-254), then the handler
\* (preload.js:167-187).
MeasureOutDone ==
    /\ pc = "measureOut"
    /\ LET k == IF inputStats = Null
                THEN ProcessImagesCatch(MsgMustMeasure, results,
                       processedCount, tempDirectories, currentOutputPath)
                ELSE HandlerReturn(PiReturned(results), results,
                                   processedCount)
       IN  /\ Goto(k, inputStats, "set")
           /\ h' = Hist(k, h)
    /\ UNCHANGED <<imageFiles, outputPath, isCancelled, currentOutputPath,
                   tempDirectories, tempDirCreated, cpc, fsVars, envVars>>


\* ------------------------------------------- performCleanup of the run
\* An fs.rm of the performCleanup that processImages awaits returned:
\* cleanA is the call of imageProcessor.js:233, cleanB the call of
\* imageProcessor.js:261 (imageProcessor.js:545-574).
RunCleanupStep ==
    /\ pc \in CleanupPcs
    /\ LET ph == IF pc \in {"cleanA_rmTemp", "cleanB_rmTemp"}
                 THEN "rmTemp" ELSE "rmOut"
           first == pc \in {"cleanA_rmTemp", "cleanA_rmOut"}
           r == Rm(CleanupTarget(ph))
           nxt == CleanupAfterRm(ph, r.ok, currentOutputPath, processedCount)
           k == IF nxt = "rmOut"
                THEN [Cont(IF first THEN "cleanA_rmOut" ELSE "cleanB_rmOut",
                           i, results, processedCount)
                        EXCEPT !.err = pendingError]
                ELSE IF nxt = "threw"
                THEN IF first
                     THEN ProcessImagesCatch(MsgCleanupFailed, results,
                            processedCount, tempDirectories, currentOutputPath)
                     ELSE HandlerCatch(MsgCleanupFailed, results,
                                       processedCount)
                ELSE IF first
                THEN [ProcessImagesCatch(MsgCancelledByUser, results,
                        processedCount, tempDirectories, currentOutputPath)
                        EXCEPT !.cl = @ + 1]
                ELSE [HandlerCatch(MsgProcessingFailed(pendingError), results,
                                   processedCount) EXCEPT !.cl = 1]
       IN  /\ ApplyRm(r)
           /\ Goto(k, inputStats, outputStats)
           /\ h' = [Hist(k, h) EXCEPT !.rmFailed = @ \/ ~r.ok]
    /\ UNCHANGED <<imageFiles, outputPath, isCancelled, currentOutputPath,
                   tempDirectories, tempDirCreated, cpc, envVars>>

\* ------------------------------------------------------------ cancelling
\* The run is suspended in an operation of the event loop, so that another
\* callback can run.  measureOutputSizes awaits fs.stat only for a Success
\* (part_000:72-98): without one, the await of imageProcessor.js:240
\* resumes before any other callback.
Suspended == pc = "measureOut" => Successful(results) > 0

\* ipcMain.handle('cancel-compression') (preload.js:212-229) up to the first
\* await of cancel() and performCleanup (imageProcessor.js:577-585, 545-552).
CancelRequest(c) ==
    /\ cpc[c] = "idle"
    /\ \A b \in 1..(c - 1) : cpc[b] # "idle"
    /\ Suspended
    /\ IF currentProcessor = Null
       THEN /\ cpc' = [cpc EXCEPT ![c] = "noActive"]
            /\ UNCHANGED <<isCancelled, h>>
       ELSE LET ph == CleanupFirst(tempDirectories, currentOutputPath,
                                   processedCount)
            IN  /\ isCancelled' = TRUE
                /\ cpc' = [cpc EXCEPT
                             ![c] = IF ph = "done" THEN "returned" ELSE ph]
                /\ h' = [h EXCEPT
                           !.cancelPc = IF isCancelled THEN @ ELSE pc,
                           !.cancelK = IF isCancelled THEN @ ELSE Len(results),
                           !.cancelSucc = IF isCancelled THEN @
                                          ELSE Successful(results),
                           !.inFlight = IF pc \in {"codec", "codecS"}
                                        THEN @ \cup {i} ELSE @]
    /\ UNCHANGED <<runVars, processedCount, currentOutputPath,
                   tempDirectories, tempDirCreated, analyzerVars,
                   handlerVars, fsVars, envVars>>

\* An fs.rm of the performCleanup that cancel() awaits returned
\* (imageProcessor.js:550-585).
CancelStep(c) ==
    /\ cpc[c] \in {"rmTemp", "rmOut"}
    /\ Suspended
    /\ LET r == Rm(CleanupTarget(cpc[c]))
           nxt == CleanupAfterRm(cpc[c], r.ok, currentOutputPath,
                                 processedCount)
       IN  /\ ApplyRm(r)
           /\ cpc' = [cpc EXCEPT ![c] = IF nxt = "done" THEN "returned" ELSE nxt]
           /\ h' = [h EXCEPT !.rmFailed = @ \/ ~r.ok]
    /\ UNCHANGED <<runVars, procVars, analyzerVars, handlerVars, envVars>>

\* ----------------------------------------------------------- environment
\* Someone removes the run's output directory while the run is in progress
\* (the case imageProcessor.js:298-303 checks for).
ExternalRemove ==
    /\ pc \in ConvertingPcs
    /\ outputPath \in dirs
    /\ ~h.extRemoved
    /\ dirs' = dirs \ {outputPath}
    /\ outFiles' = {}
    /\ h' = [h EXCEPT !.extRemoved = TRUE]
    /\ UNCHANGED <<runVars, procVars, analyzerVars, handlerVars, cpc,
                   tmpFile, envVars>>

\* ---------------------------------------------------------------- system
\* The steps of a run that has started, of the cancel requests and of the
\* world outside.
RunNext ==
    \/ ScanDone
    \/ MeasureInDone
    \/ CoStatDone
    \/ CoAccessDone
    \/ CoMkdirDone
    \/ AccessDone
    \/ MkTempDone
    \/ CopyDone
    \/ CodecDone
    \/ CodecSDone
    \/ UnlinkTempDone
    \/ RmTempDone
    \/ MeasureOutDone
    \/ RunCleanupStep
    \/ \E c \in 1..MaxCancels : CancelRequest(c)
    \/ \E c \in 1..MaxCancels : CancelStep(c)
    \/ ExternalRemove

Next ==
    \/ HandlerStart
    \/ RunNext

Spec == Init /\ [][Next]_vars

TypeOK ==
    /\ pc \in {"idle", "done"} \cup RunningPcs
    /\ isCancelled \in BOOLEAN
    /\ processedCount \in 0..MaxFiles
    /\ Len(results) <= MaxFiles
    /\ dirs \subseteq Dirs
    /\ \A c \in 1..MaxCancels :
         cpc[c] \in {"idle", "rmTemp", "rmOut", "returned", "noActive", "threw"}


\* ================================================================ claims
\* The run and every cancel request have settled.
Settled ==
    /\ pc = "done"
    /\ \A c \in 1..MaxCancels : cpc[c] \notin {"rmTemp", "rmOut"}

\* msg ends with the fragments of e.
Carries(msg, e) ==
    /\ Len(msg) >= Len(e)
    /\ SubSeq(msg, Len(msg) - Len(e) + 1, Len(msg)) = e

\* The results recorded for file j of the scanned list.
ResultsOf(j) == {k \in DOMAIN results : results[k].original = imageFiles[j].name}

\* C1: a run of processImages in which cancellation is never requested and
\* which returns a result returns exactly one entry per scanned file, in
\* particular results.length = totalFiles.
C1_OneResultPerScannedFile ==
    (piResult.kind = "returned" /\ ~isCancelled) =>
        /\ Len(piResult.results) = piResult.totalFiles
        /\ \A j \in DOMAIN imageFiles :
             Cardinality({k \in DOMAIN piResult.results :
                 piResult.results[k].original = imageFiles[j].name}) = 1

\* C2: when the codec fails on a file and cancellation has not been
\* requested, exactly one Failure carrying the error message is recorded for
\* that file, and the run goes on to attempt every later file.
C2_CodecFailureIsRecordedAndRunContinues ==
    \A f \in h.codecFailed :
        /\ Cardinality({k \in ResultsOf(f[1]) :
               ~results[k].success /\ Carries(results[k].error, f[2])}) = 1
        /\ Cardinality(ResultsOf(f[1])) = 1
        /\ (pc = "done" /\ ~isCancelled) => h.attempted = Len(imageFiles)

\* C3: if the output directory is gone when a file iteration begins, the
\* run ends with a fatal error: processImages throws, it does not return
\* success:true.
C3_MissingOutputDirIsFatal ==
    (h.folderMissing /\ pc = "done") => piResult.kind = "threw"

\* The cancel landed before any file completed: during scanning, input
\* measurement, output-folder creation or the first file's processing.
CancelledBeforeAnyFile ==
    /\ h.cancelK = 0
    /\ h.cancelPc \in ScanningPcs \cup MeasuringInputPcs \cup CreatingOutputPcs
                      \cup {"access", "mkTemp", "copy", "codec", "codecS",
                            "unlinkTemp"}

\* Neither the output directory the run created nor a staging directory exists.
NothingLeftBehind ==
    /\ h.createdOut => outputPath \notin dirs
    /\ TempPath \notin dirs

\* C4 as stated: a cancel before any file has completed leaves, once cancel
\* and run have settled, no output directory created by the run and no
\* staging directory.
C4_Orig_EarlyCancelLeavesNothing ==
    (Settled /\ CancelledBeforeAnyFile) => NothingLeftBehind

\* C4 amended: the same, provided no fs.rm issued by the cleanup failed
\* (a failed removal is only logged and leaves the directory in place).
C4_EarlyCancelLeavesNothingUnlessRmFails ==
    (Settled /\ CancelledBeforeAnyFile /\ ~h.rmFailed) => NothingLeftBehind

\* The cancel landed in the first file's codec call, the run had created its
\* output directory, every removal succeeded and all has settled.
C4_Witness ==
    /\ Settled
    /\ CancelledBeforeAnyFile
    /\ h.cancelPc = "codec"
    /\ h.createdOut
    /\ ~h.rmFailed
    /\ piResult.kind = "threw"

\* C5: after cancel() is requested with k files completed, no codec
\* invocation is started and the results list never holds more than k entries.
C5_NoCodecCallAfterCancel ==
    /\ ~h.codecAfterCancel
    /\ h.cancelK >= 0 => Len(results) <= h.cancelK

\* The run is past the final cancellation check of the file it processes.
PastFinalCheck == pc \notin {"codec", "codecS", "unlinkTemp"}

NoSuccessFor(j) == \A k \in ResultsOf(j) : ~results[k].success

\* C6 as stated: if cancel() lands in the codec call of a file, then after
\* the call the output file written for it is deleted and no Success is
\* recorded for it.
C6_Orig_InFlightOutputDeleted ==
    \A j \in h.inFlight :
        PastFinalCheck =>
            /\ NoSuccessFor(j)
            /\ j \in h.written => imageFiles[j].base \notin outFiles

\* C6 amended: no Success is recorded for the file, and the output file is
\* deleted unless the fs.unlink fails (the code ignores that failure).
C6_InFlightOutputDeletedUnlessUnlinkFails ==
    \A j \in h.inFlight :
        PastFinalCheck =>
            /\ NoSuccessFor(j)
            /\ (j \in h.written /\ ~h.unlinkFailed) =>
                   imageFiles[j].base \notin outFiles

\* A cancel landed in the codec call of the second file, on the sanitized
\* path, after the first file was converted; the call wrote its output and
\* the run went past the final check.
C6_Witness ==
    /\ 2 \in h.inFlight
    /\ 2 \in h.written
    /\ imageFiles[2].unsafe
    /\ Len(results) = 1 /\ results[1].success
    /\ ~h.unlinkFailed
    /\ ~h.extRemoved
    /\ pc = "done"

\* C7: when cancellation is requested in a run in which no file has been
\* converted successfully, cleanup removes the output directory the run
\* created.  Stated for runs in which every removal that was issued
\* succeeded, so that a violation is the code's own.
C7_CancelWithoutSuccessRemovesOutput ==
    (Settled /\ isCancelled /\ h.cancelSucc = 0 /\ h.createdOut
        /\ ~h.rmFailed)
      => outputPath \notin dirs

\* C8: once cancel() has been requested before processImages settles,
\* processImages ends by throwing, after a performCleanup of its own; it
\* never returns a success result.  (The error thrown is the cancellation
\* error unless an error of the filesystem came first; the text of the
\* message is left open here.)
C8_CancelEndsInCancellationError ==
    (piResult.kind # "none" /\ isCancelled) =>
        /\ piResult.kind = "threw"
        /\ h.runCleanups >= 1

\* C9: the 'compress-images' handler returns {success:false, cancelled:true}
\* whenever cancel was requested on its processor before the run settled,
\* whether processImages threw or returned; the error outcome carries no
\* cancelled flag.
C9_HandlerReportsCancellation ==
    /\ (pc = "done" /\ isCancelled) =>
          /\ handlerResult.kind = "cancelled"
          /\ ~handlerResult.success
          /\ handlerResult.cancelled
    /\ handlerResult.kind = "error" =>
          ~handlerResult.success /\ ~handlerResult.cancelled

\* The cancel landed while the outputs were measured: processImages returned
\* a result and the handler reported the cancellation.
C9_Witness ==
    /\ pc = "done"
    /\ isCancelled
    /\ piResult.kind = "returned"
    /\ handlerResult.cancelled

\* What one cancel() call, run with nothing else in between, makes of the
\* flag and the filesystem st = [flag, fs].
CancelNet(st) ==
    LET ph1 == CleanupFirst(tempDirectories, currentOutputPath, processedCount)
        r1 == IF ph1 = "rmTemp" THEN RmOn(TempPath, st.fs)
              ELSE [ok |-> TRUE] @@ st.fs
        ph2 == IF ph1 = "rmTemp"
               THEN CleanupAfterRm(ph1, r1.ok, currentOutputPath, processedCount)
               ELSE ph1
        r2 == IF ph2 = "rmOut"
              THEN RmOn(currentOutputPath,
                        [dirs |-> r1.dirs, outFiles |-> r1.outFiles,
                         tmpFile |-> r1.tmpFile])
              ELSE r1
    IN  [flag |-> TRUE,
         fs |-> [dirs |-> r2.dirs, outFiles |-> r2.outFiles,
                 tmpFile |-> r2.tmpFile]]

C11_HandlerAlwaysReturnsStructuredOutcome ==
    pc = "done" =>
        /\ handlerResult.kind \in {"success", "cancelled", "error"}
        /\ handlerResult.success \in BOOLEAN
        /\ handlerResult.success =>
              /\ handlerResult.kind = "success"
              /\ piResult.kind = "returned"
              /\ handlerResult.compressionStats # Null
        /\ ~handlerResult.success =>
              /\ Len(handlerResult.error) > 0
              /\ handlerResult.cancelled = (handlerResult.kind = "cancelled")

\* processImages threw a fatal error in a run that was not cancelled and
\* the handler returned the error outcome.
C11_Witness ==
    /\ pc = "done"
    /\ piResult.kind = "threw"
    /\ ~isCancelled
    /\ handlerResult.kind = "error"
    /\ handlerResult.error = MsgProcessingFailed(MsgNoImages)

\* The output directory is due for removal by a cleanup.
OutputDue == currentOutputPath # Null /\ processedCount = 0

\* C12: performCleanup never throws.  Whether or not the removal of the
\* staging directory succeeds, a cleanup goes on to the output directory
\* when that is due, in the run and in every cancel request; no cancel
\* request ends in an error; and the run that leaves its cleanup ends with
\* the error it had before: the cancellation error after the cleanup of
\* imageProcessor.js:233, the pending error after that of line 261.
C12_CleanupNeverThrows ==
    [][ /\ (pc \in {"cleanA_rmTemp", "cleanB_rmTemp"} /\ pc' # pc /\ OutputDue)
            => pc' = (IF pc = "cleanA_rmTemp" THEN "cleanA_rmOut"
                                              ELSE "cleanB_rmOut")
        /\ \A c \in 1..MaxCancels :
              /\ (cpc[c] = "rmTemp" /\ cpc'[c] # cpc[c] /\ OutputDue)
                    => cpc'[c] = "rmOut"
              /\ cpc'[c] # "threw"
        /\ (pc \in {"cleanB_rmTemp", "cleanB_rmOut"} /\ pc' = "done")
            => /\ piResult'.kind = "threw"
               /\ piResult'.error = MsgProcessingFailed(pendingError)
               /\ handlerResult' = CatchOutcome(piResult'.error)
        /\ (pc \in {"cleanA_rmTemp", "cleanA_rmOut"}
               /\ pc' \notin {"cleanA_rmTemp", "cleanA_rmOut"})
            => \/ pc' \in {"cleanB_rmTemp", "cleanB_rmOut"}
                    /\ pendingError' = MsgCancelledByUser
               \/ pc' = "done"
                    /\ piResult'.kind = "threw"
                    /\ piResult'.error = MsgProcessingFailed(MsgCancelledByUser)
                    /\ handlerResult' = CancelledOutcome
      ]_vars

\* The cleanup of the run is removing the output directory after its
\* removal of the staging directory failed.
C12_Witness ==
    /\ pc \in {"cleanA_rmOut", "cleanB_rmOut"}
    /\ Len(tempDirectories) > 0
    /\ TempPath \in dirs
    /\ TempPath \in undeletable
    /\ h.rmFailed

\* C13: once cancel() has set the flag, no progress event is delivered for
\* the run: updateProgress never calls the progress callback, and neither
\* progressCallback nor sendFinalProgress of the handler sends.
C13_NoProgressAfterCancel ==
    /\ ~h.cbAfterCancel
    /\ ~h.sentAfterCancel

\* The cancel landed in the codec call of the second file, after the
\* event of the first file was delivered, and the run has ended.
C13_Witness ==
    /\ pc = "done"
    /\ isCancelled
    /\ h.cancelPc = "codec"
    /\ h.cancelK = 1
    /\ h.fileEvents = 1
    /\ piResult.kind = "threw"

\* C14: as long as cancellation has not been requested, every file that
\* completed, in Success or in Failure, has updated the estimator once and
\* has had exactly one progress event emitted for it.
C14_EveryCompletedFileReported ==
    h.cancelK = -1 =>
        /\ h.estUpdates = Len(results)
        /\ h.fileEvents = Len(results)

C33_NoStagingDirOutlivesRun ==
    (pc = "done" /\ TempPath \notin undeletable) => TempPath \notin dirs

\* A run that had made its staging directory was cancelled while a file
\* was being staged or converted, and has settled with the directory gone.
C33_Witness ==
    /\ pc = "done"
    /\ TempPath \notin undeletable
    /\ tempDirCreated
    /\ isCancelled
    /\ h.cancelPc \in {"copy", "codecS", "unlinkTemp"}
    /\ TempPath \notin dirs

\* C35: the cancellation path is taken only when cancel() was requested in
\* the run: the handler answers cancelled, performCleanup runs and the file
\* loop ends before the last file only with the flag set; an error whose
\* message merely contains the text 'cancelled' is an ordinary error.
C35_CancellationOnlyOnRequest ==
    ~isCancelled =>
        /\ handlerResult # CancelledOutcome
        /\ h.runCleanups = 0
        /\ (pc = "done" /\ piResult.kind = "returned")
              => h.attempted = Len(imageFiles)

\* C37: the cleanup on cancellation removes only directories the run
\* created: no step of performCleanup takes away a directory that existed
\* before the run started.
C37_CleanupSparesEarlierDirectories ==
    [][ \/ /\ pc \in CleanupPcs
           /\ pc' # pc
        \/ \E c \in 1..MaxCancels : /\ cpc[c] \in {"rmTemp", "rmOut"}
                                     /\ cpc'[c] # cpc[c]
        => (dirs \ dirs') \cap h.dirs0 = {}
      ]_vars

\* ------------------------------------------- the orchestrator used directly
\* The operations of ImageProcessor called on one instance by a caller that
\* holds it: cancel before the run has started, processImages, and from
\* there the steps of the run.
\* cancel (imageProcessor.js:577-585) before processImages was called:
\* performCleanup (545-572) finds no staging directory and no output path.
CancelBeforeRun ==
    /\ pc = "idle"
    /\ ~isCancelled
    /\ tempDirectories = <<>>
    /\ currentOutputPath = Null
    /\ isCancelled' = TRUE
    /\ UNCHANGED <<runVars, processedCount, currentOutputPath,
                   tempDirectories, tempDirCreated, analyzerVars,
                   handlerVars, cpc, fsVars, envVars, h>>

\* processImages called on the instance (imageProcessor.js:182-194).
ProcessImagesDirect ==
    /\ pc = "idle"
    /\ ProcessImagesStart
    /\ UNCHANGED <<imageFiles, outputPath, tempDirCreated, cpc, fsVars,
                   envVars>>

OrchestratorNext ==
    \/ CancelBeforeRun
    \/ ProcessImagesDirect
    \/ RunNext

OrchestratorSpec == Init /\ [][OrchestratorNext]_vars

\* C29: the cancellation flag is written only by cancel(): once cancel() has
\* set it, no step of the orchestrator, the start of processImages included,
\* clears it.
C29_FlagWrittenOnlyByCancel ==
    [][isCancelled => isCancelled']_vars

\* The phase a position of the run belongs to; the cleanup of a cancelled or
\* failed run and its end count as the last one.
PhaseOf(p) ==
    CASE p = "idle" -> 0
      [] p \in ScanningPcs -> 1
      [] p \in MeasuringInputPcs -> 2
      [] p \in CreatingOutputPcs -> 3
      [] p \in ConvertingPcs -> 4
      [] p \in MeasuringOutputPcs -> 5
      [] OTHER -> 6

\* C28: the phases of a run occur only in the order Scanning, MeasuringInput,
\* CreatingOutput, Converting, MeasuringOutput, Done: no step goes back to an
\* earlier phase or enters a phase other than from the one before it; the
\* output directory is created only with the input sizes measured; a file is
\* handed to the codec only with the output directory created; the output
\* sizes are measured only when the last file has been attempted; and the
\* run returns only from the measuring of the output.
C28_PhasesInOrder ==
    [][ /\ PhaseOf(pc') >= PhaseOf(pc)
        /\ PhaseOf(pc') \in 1..5 => PhaseOf(pc') <= PhaseOf(pc) + 1
        /\ (dirs' \ dirs) \cap {DerivedPath, StampedPath} # {}
              => /\ pc \in CreatingOutputPcs
                 /\ inputStats = "set"
        /\ (pc' \in {"codec", "codecS"} /\ pc' # pc)
              => /\ currentOutputPath' # Null
                 /\ inputStats' = "set"
        /\ (pc' \in MeasuringOutputPcs /\ pc' # pc)
              => /\ pc \in ConvertingPcs
                 /\ h'.attempted = Len(imageFiles)
        /\ (pc' = "done" /\ pc' # pc /\ piResult'.kind = "returned")
              => pc \in MeasuringOutputPcs
      ]_vars

\* ====================================================== the size analyzer
\* FileSizeAnalyzer on its own (part_000): the two snapshots with their
\* sizes, under any sequence of its calls.  inputStats and outputStats hold
\* the records the measure functions build.
MaxSize == 1       \* largest file size fs.stat reports
StatFailed == MaxSize + 1   \* stands for fs.stat rejecting
StatOutcomes == 0..MaxSize \cup {StatFailed}
\* A snapshot that was not recorded (null); a recorded one is a record of
\* files, totalSize and totalFiles.
NoData == [files |-> Null]

\* The file lists the analyzer is handed: the first files of one listing.
Listing ==
    << [name |-> "a.jpg",   base |-> "a",   unsafe |-> FALSE],
       [name |-> "b#1.png", base |-> "b#1", unsafe |-> TRUE],
       [name |-> "a.png",   base |-> "a",   unsafe |-> FALSE] >>
MeasuredLists ==
    { fl \in FileLists : \A k \in DOMAIN fl : fl[k] = Listing[k] }

\* The result lists processing can hand to measureOutputSizes: a Success
\* or a Failure for each file of such a list.
ResultLists ==
    UNION { { rs \in [DOMAIN fl -> {SuccessResult(f) : f \in InputFiles} \cup
                              {FailureResult(f, ErrPlain) : f \in InputFiles}] :
                \A k \in DOMAIN fl : rs[k].original = fl[k].name }
            : fl \in MeasuredLists }

\* One pass of the loop of measureInputSizes (part_000:30-51) over the
\* files from position k on: st[k] is what fs.stat gives for file k.
RECURSIVE InputLoop(_, _, _, _)
InputLoop(fl, st, k, data) ==
    IF k > Len(fl) THEN data
    ELSE IF st[k] # StatFailed
         THEN InputLoop(fl, st, k + 1,
                  [data EXCEPT !.files = Append(@, [name |-> fl[k].name,
                                                     size |-> st[k],
                                                     error |-> FALSE]),
                               !.totalSize = @ + st[k]])
         ELSE InputLoop(fl, st, k + 1,
                  [data EXCEPT !.files = Append(@, [name |-> fl[k].name,
                                                     size |-> 0,
                                                     error |-> TRUE])])

\* measureInputSizes (part_000:21-60).
InputData(fl, st) ==
    InputLoop(fl, st, 1,
              [files |-> <<>>, totalSize |-> 0, totalFiles |-> Len(fl)])

\* The loop of measureOutputSizes (part_000:73-120).
RECURSIVE OutputLoop(_, _, _, _)
OutputLoop(rs, st, k, data) ==
    IF k > Len(rs) THEN data
    ELSE IF ~rs[k].success
         THEN OutputLoop(rs, st, k + 1,
                  [data EXCEPT !.files = Append(@, [name |-> rs[k].original,
                                                     size |-> 0,
                                                     error |-> TRUE])])
    ELSE IF st[k] # StatFailed
         THEN OutputLoop(rs, st, k + 1,
                  [data EXCEPT !.files = Append(@, [name |-> rs[k].compressed,
                                                     size |-> st[k],
                                                     error |-> FALSE]),
                               !.totalSize = @ + st[k],
                               !.successfulFiles = @ + 1])
         ELSE OutputLoop(rs, st, k + 1,
                  [data EXCEPT !.files = Append(@, [name |-> rs[k].original,
                                                     size |-> 0,
                                                     error |-> TRUE])])

\* measureOutputSizes (part_000:63-129).
OutputData(rs, st) ==
    LET data == OutputLoop(rs, st, 1,
                    [files |-> <<>>, totalSize |-> 0, totalFiles |-> 0,
                     successfulFiles |-> 0])
    IN  [data EXCEPT !.totalFiles = Len(data.files)]

\* Variant: failedFiles is counted from the entries of the output snapshot.
CalculateStats_FromOutputEntries(inS, outS) ==
    IF inS = NoData \/ outS = NoData
    THEN [kind |-> "threw", error |-> MsgMustMeasure]
    ELSE [kind |-> "returned",
          inputSize |-> inS.totalSize,
          outputSize |-> outS.totalSize,
          savings |-> inS.totalSize - outS.totalSize,
          inputFiles |-> inS.totalFiles,
          outputFiles |-> outS.successfulFiles,
          failedFiles |-> outS.totalFiles - outS.successfulFiles]

\* Variant: statistics are derived from whatever snapshot is present.
CalculateStats_Lenient(inS, outS) ==
    LET a == IF inS = NoData THEN InputData(<<>>, <<>>) ELSE inS
        b == IF outS = NoData THEN OutputData(<<>>, <<>>) ELSE outS
    IN  [kind |-> "returned",
         inputSize |-> a.totalSize,
         outputSize |-> b.totalSize,
         savings |-> a.totalSize - b.totalSize,
         inputFiles |-> a.totalFiles,
         outputFiles |-> b.successfulFiles,
         failedFiles |-> a.totalFiles - b.successfulFiles]

\* calculateStats (part_000:132-160), without the ratio.
CalculateStats(inS, outS) ==
    IF inS = NoData \/ outS = NoData
    THEN [kind |-> "threw", error |-> MsgMustMeasure]
    ELSE [kind |-> "returned",
          inputSize |-> inS.totalSize,
          outputSize |-> outS.totalSize,
          savings |-> inS.totalSize - outS.totalSize,
          inputFiles |-> inS.totalFiles,
          outputFiles |-> outS.successfulFiles,
          failedFiles |-> inS.totalFiles - outS.successfulFiles]

\* Everything outside the analyzer stays as constructed.
SizeFrame ==
    UNCHANGED <<runVars, procVars, handlerVars, cpc, fsVars, undeletable, h,
                nm, batchVars, san, scan, auxVars>>

\* The processor and the handler as constructed, no run started.
Constructed ==
    /\ san = NewSanitizer
    /\ AuxIdle
    /\ pc = "idle"
    /\ i = 0
    /\ imageFiles = <<>>
    /\ results = <<>>
    /\ pendingError = <<>>
    /\ outputPath = Null
    /\ isCancelled = FALSE
    /\ processedCount = 0
    /\ currentOutputPath = Null
    /\ tempDirectories = <<>>
    /\ tempDirCreated = FALSE
    /\ piResult = PiNone
    /\ currentProcessor = Null
    /\ handlerResult = NoResult
    /\ cpc = [c \in 1..MaxCancels |-> "idle"]
    /\ dirs = {}
    /\ outFiles = {}
    /\ tmpFile = FALSE
    /\ undeletable = {}
    /\ h = HistoryInit

SizeInit ==
    /\ Constructed
    /\ scan = NewScan
    /\ BatchIdle
    /\ inputStats = NoData
    /\ outputStats = NoData
    /\ stats = [kind |-> "none"]
    /\ recorded = {}
    /\ nm = NoName

MeasureInputSizes ==
    /\ \E fl \in MeasuredLists : \E st \in [1..Len(fl) -> StatOutcomes] :
          inputStats' = InputData(fl, st)
    /\ recorded' = recorded \cup {"input"}
    /\ stats' = [kind |-> "none"]
    /\ UNCHANGED outputStats
    /\ SizeFrame

MeasureOutputSizes ==
    /\ \E rs \in ResultLists : \E st \in [1..Len(rs) -> StatOutcomes] :
          /\ \A k \in DOMAIN rs : ~rs[k].success => st[k] = StatFailed
          /\ outputStats' = OutputData(rs, st)
    /\ recorded' = recorded \cup {"output"}
    /\ stats' = [kind |-> "none"]
    /\ UNCHANGED inputStats
    /\ SizeFrame

\* reset (part_000:239-242).
ResetStats(outS) == [inputStats |-> NoData, outputStats |-> NoData]

Reset ==
    /\ inputStats' = ResetStats(outputStats).inputStats
    /\ outputStats' = ResetStats(outputStats).outputStats
    /\ recorded' = {}
    /\ stats' = [kind |-> "none"]
    /\ SizeFrame

CalculateStatsCall ==
    /\ stats' = CalculateStats(inputStats, outputStats)
    /\ UNCHANGED <<inputStats, outputStats, recorded>>
    /\ SizeFrame

SizeNext ==
    \/ MeasureInputSizes
    \/ MeasureOutputSizes
    \/ Reset
    \/ CalculateStatsCall

SizeSpec == SizeInit /\ [][SizeNext]_vars

\* C19: the statistics a run returns satisfy savings = inputSize -
\* outputSize and failedFiles = inputFiles - outputFiles, where inputFiles
\* counts every scanned file, those whose size could not be read included,
\* and outputFiles counts the outputs that were measured.
C19_StatsIdentities ==
    stats.kind = "returned" =>
        /\ stats.savings = stats.inputSize - stats.outputSize
        /\ stats.failedFiles = stats.inputFiles - stats.outputFiles
        /\ stats.inputFiles = Len(inputStats.files)
        /\ stats.outputFiles =
              Cardinality({k \in DOMAIN outputStats.files :
                              ~outputStats.files[k].error})

\* A run whose input snapshot holds an unreadable file and whose output
\* snapshot holds fewer entries than were scanned.
C19_Witness ==
    /\ stats.kind = "returned"
    /\ \E k \in DOMAIN inputStats.files : inputStats.files[k].error
    /\ Len(outputStats.files) < Len(inputStats.files)
    /\ stats.outputFiles = 1
    /\ stats.failedFiles = 1
    /\ stats.savings < 0

\* C20: after any sequence of measureInputSizes, measureOutputSizes and
\* reset, calculateStats returns statistics only if both snapshots were
\* recorded since the last reset; otherwise it throws, and in either case
\* it leaves the snapshots as they were.
C20_StatsNeedBothSnapshots ==
    [][ (stats' # stats /\ stats'.kind # "none") =>
           /\ stats'.kind = "returned" <=> recorded = {"input", "output"}
           /\ stats'.kind = "threw" => stats'.error = MsgMustMeasure
           /\ stats'.kind \in {"returned", "threw"}
           /\ UNCHANGED <<inputStats, outputStats>> ]_vars

\* calculateStats has thrown after a reset that followed both measurements.
C20_Witness ==
    /\ stats.kind = "threw"
    /\ recorded = {"output"}
    /\ inputStats = NoData
    /\ outputStats # NoData

\* ============================================================ output names
\* The name a Success result gives to its output, on each of the paths that
\* produce one, for every name the scanner accepts.
NameFrame ==
    UNCHANGED <<runVars, procVars, analyzerVars, handlerVars, cpc, fsVars,
                undeletable, sizeVars, batchVars, san, scan, auxVars, h>>

\* The scanner accepts a name whose extension is a supported format
\* (imageProcessor.js:119-122).
NameInit ==
    /\ Constructed
    /\ scan = NewScan
    /\ BatchIdle
    /\ inputStats = Null
    /\ outputStats = Null
    /\ stats = [kind |-> "none"]
    /\ recorded = {}
    /\ \E stem \in Stems :
          /\ Extname(stem \o ExtPng) = ExtPng
          /\ nm = [NoName EXCEPT !.stem = stem, !.name = stem \o ExtPng]

\* processSharpSequential takes the direct path for a name that needs no
\* sanitization (imageProcessor.js:308-319); the Success of
\* processSharpClean (imageProcessor.js:385-387, 408-413).
ProcessSharpCleanNames ==
    /\ nm.via = "none"
    /\ ~needsSanitization(nm.name)
    /\ nm' = [nm EXCEPT !.via = "clean",
                         !.compressed = CleanOutputName(nm.name),
                         !.finalPath = <<DerivedPath>> \o CleanOutputName(nm.name)]
    /\ NameFrame

\* The Success of processSharpSanitized (imageProcessor.js:442-452, 480-485).
ProcessSharpSanitizedNames ==
    /\ nm.via = "none"
    /\ needsSanitization(nm.name)
    /\ nm' = [nm EXCEPT !.via = "sanitized",
                         !.alias = sanitizeFileName(nm.name),
                         !.compressed = SanitizedOutputName(nm.name),
                         !.finalPath = <<DerivedPath>> \o SanitizedOutputName(nm.name)]
    /\ NameFrame

\* createTempFiles followed by restoreOriginalNames for one file, whatever
\* its name (part_001:52-53, 110-112, 118-123).
RestoreOriginalNames ==
    /\ nm.via = "none"
    /\ nm' = [nm EXCEPT !.via = "restored",
                         !.alias = sanitizeFileName(nm.name),
                         !.compressed = RestoredOutputName(nm.name),
                         !.finalPath = <<DerivedPath>> \o RestoredOutputName(nm.name)]
    /\ NameFrame

NameNext ==
    \/ ProcessSharpCleanNames
    \/ ProcessSharpSanitizedNames
    \/ RestoreOriginalNames

NameSpec == NameInit /\ [][NameNext]_vars

\* C18: every Success result names its output <base name of the original
\* without its extension>.webp inside the output directory, on the direct
\* path and on the staging paths alike, and the name of the staged copy does
\* not show in it.
C18_OutputNamedAfterOriginal ==
    nm.via # "none" =>
        /\ nm.compressed = nm.stem \o ExtWebp
        /\ nm.finalPath = <<DerivedPath>> \o nm.compressed
        /\ (nm.via # "clean" /\ nm.alias # nm.name) =>
              nm.compressed # Basename(nm.alias, ExtPng) \o ExtWebp

\* A name with an unsafe character went through the staging path under
\* another name.
C18_Witness ==
    /\ nm.via = "sanitized"
    /\ needsSanitization(nm.name)
    /\ nm.alias # nm.name
    /\ nm.compressed = nm.stem \o ExtWebp

\* this.tempFileMap.set(key, value) and .get(key): the mapping is a set of
\* entries with one entry per key.
MapSet(map, key, originalName) ==
    {e \in map : e.key # key} \cup {[key |-> key, originalName |-> originalName]}
MapGet(map, key) == {e \in map : e.key = key}

\* ====================================================== the batch strategy
\* processImages of the batch strategy (imageProcessor.js:767-862) with
\* processChunk and processIndividually.  Its cancel only sets the flag,
\* which is read at the head of the chunk loop and after it, so the
\* filesystem calls that follow a codec call are taken with it in one step.
BatchPcs == {"b_init", "b_scan", "b_measureIn", "b_create", "b_chunk",
             "b_rename", "b_indiv", "b_stage", "b_indivSan", "b_measureOut"}

BatchFrame ==
    UNCHANGED <<pendingError, processedCount, currentOutputPath,
                tempDirectories, tempDirCreated, currentProcessor,
                handlerResult, cpc, fsVars, undeletable, sizeVars, nm,
                winPaths, scan, auxVars, h>>

\* The state of a batch run as one record, and its assignment.
BatchState ==
    [pc |-> pc, i |-> i, imageFiles |-> imageFiles, results |-> results,
     outputPath |-> outputPath, inputStats |-> inputStats,
     outputStats |-> outputStats, piResult |-> piResult,
     chunkSize |-> chunkSize, processedFiles |-> processedFiles,
     indivI |-> indivI, chunkResults |-> chunkResults,
     codecFiles |-> codecFiles, tempFileMap |-> san.tempFileMap,
     stagingDirs |-> stagingDirs]

BatchGoto(b) ==
    /\ pc' = b.pc
    /\ i' = b.i
    /\ imageFiles' = b.imageFiles
    /\ results' = b.results
    /\ outputPath' = b.outputPath
    /\ inputStats' = b.inputStats
    /\ outputStats' = b.outputStats
    /\ piResult' = b.piResult
    /\ chunkSize' = b.chunkSize
    /\ processedFiles' = b.processedFiles
    /\ indivI' = b.indivI
    /\ chunkResults' = b.chunkResults
    /\ codecFiles' = b.codecFiles
    /\ san' = [san EXCEPT !.tempFileMap = b.tempFileMap]
    /\ stagingDirs' = b.stagingDirs

\* The catch of processImages (imageProcessor.js:858-861).
BatchCatch(b, msg) ==
    [b EXCEPT !.pc = "done", !.inputStats = Null, !.outputStats = Null,
              !.piResult = PiThrew(MsgProcessingFailed(msg))]

\* imageFiles.slice(i, i + chunkSize), i counted from 1.
Chunk(b) ==
    SubSeq(b.imageFiles, b.i, Min(b.i + b.chunkSize - 1, Len(b.imageFiles)))

\* After the chunk loop (imageProcessor.js:831-838).
AfterChunks(b, cancelled) ==
    IF cancelled THEN BatchCatch(b, MsgCancelledByUser)
    ELSE [b EXCEPT !.pc = "b_measureOut"]

\* The head of the chunk loop (imageProcessor.js:800-814, 868-878).
ChunkLoop(b, cancelled) ==
    IF b.i <= Len(b.imageFiles) /\ ~cancelled
    THEN [b EXCEPT !.pc = "b_chunk", !.codecFiles = <<>>]
    ELSE AfterChunks(b, cancelled)

\* processChunk returned cr (imageProcessor.js:816-818, 800).  codecFiles
\* keeps what the chunk's codec call returned until the next chunk starts.
ChunkReturn(b, cr, cancelled) ==
    ChunkLoop([b EXCEPT !.results = @ \o cr,
                        !.processedFiles = @ + Len(Chunk(b)),
                        !.i = @ + b.chunkSize,
                        !.indivI = 0, !.chunkResults = <<>>],
              cancelled)

\* processIndividually up to its first codec call
\* (imageProcessor.js:935-956).
ProcessIndividually(b) ==
    [b EXCEPT !.pc = "b_indiv", !.indivI = 1, !.chunkResults = <<>>,
              !.codecFiles = <<>>]

\* Variant: a file that failed leaves no entry in the results.
IndivPush_SuccessOnly(b, r, cancelled) ==
    IF b.indivI < Len(Chunk(b))
    THEN [b EXCEPT !.pc = "b_indiv", !.indivI = @ + 1,
                   !.chunkResults = IF r.success THEN Append(@, r) ELSE @]
    ELSE ChunkReturn(b, IF r.success THEN Append(b.chunkResults, r)
                        ELSE b.chunkResults, cancelled)

\* results.push(r) and the next pass of the loop of processIndividually
\* (imageProcessor.js:938-941, 1024).
IndivPush(b, r, cancelled) ==
    IF b.indivI < Len(Chunk(b))
    THEN [b EXCEPT !.pc = "b_indiv", !.indivI = @ + 1,
                   !.chunkResults = Append(@, r)]
    ELSE ChunkReturn(b, Append(b.chunkResults, r), cancelled)

\* What the codec can return for a list of inputs: outputs of some of
\* them, each once, in an order of its own.
CodecOutputs(inputs) ==
    { out \in UNION { [1..n -> {inputs[k] : k \in DOMAIN inputs}]
                       : n \in 0..Len(inputs) } :
        \A a, b \in DOMAIN out : a # b => out[a] # out[b] }

\* The key createTempFiles stores a staged copy under: path.join(tempDir,
\* sanitizedName) (part_001:52-53, 69-72).
Sep == IF winPaths THEN "\\" ELSE "/"
TempKey(file) == <<Sep, "temp", Sep, file.name>>
\* The sourcePath the codec reports for the staged copy.
SourcePath(file) == <<"/", "temp", "/", file.name>>
\* file.sourcePath.replace(/\//g, '\\') (part_001:95).
NormalizedSourcePath(path) ==
    [k \in DOMAIN path |-> IF path[k] = "/" THEN "\\" ELSE path[k]]

UnknownResult ==
    [original |-> "unknown", success |-> FALSE, compressed |-> "",
     error |-> <<"No mapping found">>]

\* restoreOriginalNames for the output of one staged copy
\* (part_001:84-135).
RestoredResult(file, renamed) ==
    IF NormalizedSourcePath(SourcePath(file)) # TempKey(file)
    THEN UnknownResult
    ELSE IF renamed THEN SuccessResult(file)
    ELSE FailureResult(file, ErrPlain)

BatchInit ==
    /\ Constructed
    /\ scan = NewScan
    /\ inputStats = Null
    /\ outputStats = Null
    /\ stats = [kind |-> "none"]
    /\ recorded = {}
    /\ nm = NoName
    /\ chunkSize = 0
    /\ processedFiles = 0
    /\ indivI = 0
    /\ chunkResults = <<>>
    /\ codecFiles = <<>>
    /\ winPaths \in BOOLEAN
    /\ stagingDirs = {}

\* processImages up to the await of initializeImagemin
\* (imageProcessor.js:767-774).
BatchProcessImages ==
    /\ pc = "idle"
    /\ isCancelled' = FALSE
    /\ BatchGoto([BatchState EXCEPT !.pc = "b_init"])
    /\ BatchFrame

\* initializeImagemin settled (imageProcessor.js:619-667, 776-777).
BatchInitDone ==
    /\ pc = "b_init"
    /\ \/ BatchGoto([BatchState EXCEPT !.pc = "b_scan"])
       \/ BatchGoto(BatchCatch(BatchState,
                               <<"Failed to initialize imagemin:">> \o ErrPlain))
    /\ UNCHANGED isCancelled
    /\ BatchFrame

\* scanForImages settled (imageProcessor.js:683-731, 779-785).
BatchScanDone ==
    /\ pc = "b_scan"
    /\ \/ \E fl \in FileLists :
            BatchGoto(IF Len(fl) = 0
                      THEN BatchCatch(BatchState, MsgNoImages)
                      ELSE [BatchState EXCEPT !.pc = "b_measureIn",
                                              !.imageFiles = fl])
       \/ BatchGoto(BatchCatch(BatchState, MsgScanFailed(ErrPlain)))
    /\ UNCHANGED isCancelled
    /\ BatchFrame

\* measureInputSizes returned (imageProcessor.js:787-789).
BatchMeasureInDone ==
    /\ pc = "b_measureIn"
    /\ BatchGoto([BatchState EXCEPT !.pc = "b_create", !.inputStats = "set"])
    /\ UNCHANGED isCancelled
    /\ BatchFrame

\* createOutputFolder settled; the chunk size and the first pass of the
\* chunk loop (imageProcessor.js:734-762, 791-800).
BatchCreateDone ==
    /\ pc = "b_create"
    /\ \/ \E totalMemory, freeMemory \in MemorySizes :
            BatchGoto(ChunkLoop(
                [BatchState EXCEPT
                    !.outputPath = DerivedPath,
                    !.chunkSize = getOptimalChunkSize(totalMemory, freeMemory),
                    !.processedFiles = 0, !.results = <<>>, !.i = 1],
                isCancelled))
       \/ BatchGoto(BatchCatch(BatchState, ErrPlain))
    /\ UNCHANGED isCancelled
    /\ BatchFrame

\* The codec call of processChunk settled (imageProcessor.js:874-887, 927-931).
BatchChunkDone ==
    /\ pc = "b_chunk"
    /\ \/ \E out \in CodecOutputs(Chunk(BatchState)) :
            BatchGoto(IF Len(out) < Len(Chunk(BatchState))
                      THEN [ProcessIndividually(BatchState)
                                EXCEPT !.codecFiles = out]
                      ELSE [BatchState EXCEPT !.pc = "b_rename",
                                              !.codecFiles = out])
       \/ BatchGoto(ProcessIndividually(BatchState))
    /\ UNCHANGED isCancelled
    /\ BatchFrame

\* The renames of processChunk settled: one result per file the codec
\* returned, in the order it returned them (imageProcessor.js:889-925).
BatchRenameDone ==
    /\ pc = "b_rename"
    /\ \E failed \in SUBSET DOMAIN codecFiles :
          BatchGoto(ChunkReturn(BatchState,
              [k \in DOMAIN codecFiles |->
                  IF k \in failed
                  THEN FailureResult(codecFiles[k], ErrPlain)
                  ELSE SuccessResult(codecFiles[k])],
              isCancelled))
    /\ UNCHANGED isCancelled
    /\ BatchFrame

\* The codec call for one file in processIndividually settled, with the
\* rename that follows an output (imageProcessor.js:950-977, 1014-1021).
BatchIndivDone ==
    /\ pc = "b_indiv"
    /\ LET imageFile == Chunk(BatchState)[indivI]
       IN  \/ \E renamed \in BOOLEAN :
                BatchGoto(IndivPush(BatchState,
                    IF renamed THEN SuccessResult(imageFile)
                    ELSE FailureResult(imageFile, ErrPlain),
                    isCancelled))
           \/ BatchGoto([BatchState EXCEPT !.pc = "b_stage"])
    /\ UNCHANGED isCancelled
    /\ BatchFrame

\* The staging directory of the file processIndividually is at: a name of
\* its own for every file (imageProcessor.js:979-980, part_001:149-152).
TempDir(b) == b.i + b.indivI - 1

\* createTempFiles for the one file: fs.mkdir, fs.copyFile and the entry in
\* the mapping (part_001:46-81).
Staged(b) ==
    [b EXCEPT !.stagingDirs = @ \cup {TempDir(b)},
              !.tempFileMap = MapSet(@, TempKey(Chunk(b)[b.indivI]),
                                     Chunk(b)[b.indivI].name)]

\* sanitizer.cleanup(tempDir): fs.rm settled, removed tells whether it
\* removed the directory (part_001:138-146).
SanitizerCleanup(b, removed) ==
    IF removed
    THEN [b EXCEPT !.stagingDirs = @ \ {TempDir(b)}, !.tempFileMap = {}]
    ELSE b

\* createTempFiles settled (imageProcessor.js:982-987, 1005-1012): it
\* staged the file, or it threw before or after making the directory.
BatchStageDone ==
    /\ pc = "b_stage"
    /\ \/ BatchGoto([Staged(BatchState) EXCEPT !.pc = "b_indivSan"])
       \/ \E made, removed \in BOOLEAN :
            BatchGoto(IndivPush(
                SanitizerCleanup(
                    IF made
                    THEN [BatchState EXCEPT
                            !.stagingDirs = @ \cup {TempDir(BatchState)}]
                    ELSE BatchState,
                    removed),
                FailureResult(Chunk(BatchState)[indivI], ErrPlain),
                isCancelled))
    /\ UNCHANGED isCancelled
    /\ BatchFrame

\* The codec call on the staged copy settled, with restoreOriginalNames and
\* the cleanup of the staging directory (imageProcessor.js:988-1012).
BatchIndivSanDone ==
    /\ pc = "b_indivSan"
    /\ LET imageFile == Chunk(BatchState)[indivI]
       IN  \E removed \in BOOLEAN :
             LET cleaned == SanitizerCleanup(BatchState, removed)
             IN  \/ \E renamed \in BOOLEAN :
                      BatchGoto(IndivPush(cleaned,
                          RestoredResult(imageFile, renamed), isCancelled))
                 \/ BatchGoto(IndivPush(cleaned,
                        FailureResult(imageFile,
                                      <<"Sanitizer failed to process file">>),
                        isCancelled))
                 \/ BatchGoto(IndivPush(cleaned,
                        FailureResult(imageFile, ErrPlain), isCancelled))
    /\ UNCHANGED isCancelled
    /\ BatchFrame

\* measureOutputSizes returned; calculateStats and the return
\* (imageProcessor.js:840-857).
BatchMeasureOutDone ==
    /\ pc = "b_measureOut"
    /\ BatchGoto([BatchState EXCEPT !.pc = "done", !.outputStats = "set",
                                    !.piResult = PiReturned(results)])
    /\ UNCHANGED isCancelled
    /\ BatchFrame

\* cancel (imageProcessor.js:1041-1043), while the run is suspended.
BatchCancel ==
    /\ pc \in BatchPcs
    /\ pc = "b_measureOut" => Successful(results) > 0
    /\ ~isCancelled
    /\ isCancelled' = TRUE
    /\ BatchGoto(BatchState)
    /\ BatchFrame

BatchNext ==
    \/ BatchProcessImages
    \/ BatchInitDone
    \/ BatchScanDone
    \/ BatchMeasureInDone
    \/ BatchCreateDone
    \/ BatchChunkDone
    \/ BatchRenameDone
    \/ BatchIndivDone
    \/ BatchStageDone
    \/ BatchIndivSanDone
    \/ BatchMeasureOutDone
    \/ BatchCancel

BatchSpec == BatchInit /\ [][BatchNext]_vars

\* C15: results are accumulated in scan order: in every state of a run the
\* k-th entry of the results list is the result of the k-th scanned file.
C15_ResultsFollowScanOrder ==
    \A k \in DOMAIN results :
        /\ k <= Len(imageFiles)
        /\ results[k].original = imageFiles[k].name

\* C26: when the codec returns fewer outputs than the batch has inputs, the
\* files of the batch are processed one by one and the batch yields exactly
\* one result per input file; the run does not fail because of it.
C26_PartialSkipYieldsOneResultPerFile ==
    (/\ pc \in {"b_measureOut", "done"}
     /\ processedFiles > 0
     /\ Len(codecFiles) < processedFiles)
    => /\ Len(results) = processedFiles
       /\ (pc = "done" /\ ~isCancelled) => piResult = PiReturned(results)

\* The codec returned one output for two inputs, and the run returned two
\* results.
C26_Witness ==
    /\ pc = "done"
    /\ Len(imageFiles) = 2
    /\ Len(codecFiles) = 1
    /\ processedFiles = 2
    /\ piResult.kind = "returned"
    /\ Len(piResult.results) = 2

\* C30: in the batch strategy no codec call is started once cancel() has
\* been requested, neither for the remaining files of the current batch nor
\* for a later batch: with the flag set, no step takes the run to the await
\* of a codec call.
C30_NoBatchCodecCallAfterCancel ==
    [][ (isCancelled /\ pc' \in {"b_chunk", "b_indiv", "b_indivSan"})
            => (pc' = pc /\ indivI' = indivI /\ i' = i) ]_vars

\* C31: in the individual fallback a file the codec returns no output for
\* is staged in a directory of its own before the codec is retried on the
\* staged copy; one result is recorded for every file the loop has left;
\* and when the next file is processed the staging directory is removed
\* and the mapping is empty.
C31_FallbackStagesAndCleansPerFile ==
    /\ pc \in {"b_indiv", "b_stage", "b_indivSan"}
          => Len(chunkResults) = indivI - 1
    /\ pc = "b_stage" => TempDir(BatchState) \notin stagingDirs
    /\ pc = "b_indivSan"
          => /\ TempDir(BatchState) \in stagingDirs
             /\ MapGet(san.tempFileMap,
                       TempKey(Chunk(BatchState)[indivI])) # {}
    /\ pc \in {"b_indiv", "b_stage"}
          => /\ stagingDirs = {}
             /\ san.tempFileMap = {}

\* =========================================================== the sanitizer
\* sanitizeFileName applied to any name, and again to its own result.  The
\* names are all short ones and long ones around the length limit.
ShortNames(n) == UNION { [1..m -> NameChars] : m \in 0..n }
Filler(n) == [k \in 1..n |-> "a"]
AnyNames ==
    (ShortNames(MaxStem + 1) \ {<<>>})
    \cup { p \o Filler(n) \o q : p \in ShortNames(1), q \in ShortNames(2),
                                 n \in (MaxAlias - 1)..(MaxAlias + 1) }

SanitizeInit ==
    /\ Constructed
    /\ scan = NewScan
    /\ BatchIdle
    /\ inputStats = Null
    /\ outputStats = Null
    /\ stats = [kind |-> "none"]
    /\ recorded = {}
    /\ \E name \in AnyNames : nm = [NoName EXCEPT !.name = name]

SanitizeOnce ==
    /\ nm.via = "none"
    /\ nm' = [nm EXCEPT !.via = "once", !.alias = sanitizeFileName(nm.name)]
    /\ NameFrame

SanitizeAgain ==
    /\ nm.via = "once"
    /\ nm' = [nm EXCEPT !.via = "twice", !.again = sanitizeFileName(nm.alias)]
    /\ NameFrame

SanitizeNext ==
    \/ SanitizeOnce
    \/ SanitizeAgain

SanitizeSpec == SanitizeInit /\ [][SanitizeNext]_vars

\* C21: sanitizeFileName is idempotent: sanitizing a sanitized name gives
\* the same name.
C21_SanitizeIdempotent ==
    nm.via = "twice" => nm.again = nm.alias

\* A name that sanitizing changes was sanitized twice.
C21_Witness ==
    /\ nm.via = "twice"
    /\ nm.alias # nm.name
    /\ nm.again = nm.alias
    /\ \E k \in DOMAIN nm.name : nm.name[k] = " "

\* The part of a sanitized name before the extension of the original.
AliasBase == SubSeq(nm.alias, 1, Len(nm.alias) - Len(Extname(nm.name)))

\* C22: sanitizeFileName returns a base followed by the extension of the
\* original, unchanged; the base is not empty, has at most 100 characters,
\* holds no blank and no character outside the safe set, and neither starts
\* nor ends with an underscore.
C22_SanitizedNameIsSafe ==
    nm.via # "none" =>
        /\ nm.alias = AliasBase \o Extname(nm.name)
        /\ AliasBase # <<>>
        /\ Len(AliasBase) <= MaxAlias
        /\ \A k \in DOMAIN AliasBase :
              /\ AliasBase[k] \notin SpaceChars
              /\ ~Problematic(AliasBase[k])
        /\ AliasBase[1] # "_"
        /\ AliasBase[Len(AliasBase)] # "_"

\* A name whose base sanitizes to nothing got the fallback.
C22_Witness ==
    /\ nm.via = "once"
    /\ nm.name = <<"#", " ", ".", "a">>
    /\ nm.alias = Fallback \o <<".", "a">>

\* A base longer than the limit was cut, and the cut left an underscore to
\* trim.
CutAndTrimmed ==
    /\ nm.via = "once"
    /\ Len(nm.name) > MaxAlias
    /\ Len(AliasBase) = MaxAlias - 1

\* ==================================================== staging and restore
\* FileNameSanitizer on its own (part_001): createTempFiles,
\* restoreOriginalNames and cleanup called one after the other, as the
\* orchestrator awaits each of them, with the mapping they share.
StageNames ==
    { <<"a">> \o ExtPng, <<"a", "#">> \o ExtPng, <<"b", " ">> \o ExtPng }
StageLists ==
    { fl \in UNION { [1..n -> StageNames] : n \in 0..MaxFiles } :
        \A a, b \in DOMAIN fl : a # b => fl[a] # fl[b] }

\* tempPath of createTempFiles: path.join(tempDir, sanitizedName)
\* (part_001:52-53).
StagedPath(name) == <<Sep, "temp", Sep>> \o sanitizeFileName(name)
\* The same path written with forward slashes.
UnixPath(path) == [k \in DOMAIN path |-> IF path[k] = "\\" THEN "/" ELSE path[k]]

UnknownRestored ==
    [original |-> <<"unknown">>, success |-> FALSE, compressed |-> <<>>,
     error |-> <<"No mapping found">>]

\* normalizedSourcePath of restoreOriginalNames (part_001:95).
LookupKey(sourcePath) == NormalizedSourcePath(sourcePath)

\* The loop of restoreOriginalNames from descriptor m on, up to the next
\* rename or to its return (part_001:91-108, 134).
RECURSIVE RestoreLoop(_, _)
RestoreLoop(s, m) ==
    IF m > Len(s.processedFiles)
    THEN [s EXCEPT !.pc = "ready", !.last = "restored", !.k = 0]
    ELSE IF MapGet(s.tempFileMap, LookupKey(s.processedFiles[m])) = {}
         THEN RestoreLoop([s EXCEPT !.restoredFiles =
                                       Append(@, UnknownRestored)], m + 1)
         ELSE [s EXCEPT !.pc = "rename", !.k = m]

\* The loop of createTempFiles from file m on, up to the next copy or to its
\* return (part_001:51-53, 80).
StageLoop(s, m) ==
    IF m > Len(s.imageFiles)
    THEN [s EXCEPT !.pc = "ready", !.last = "staged", !.k = 0]
    ELSE [s EXCEPT !.pc = "copy", !.k = m]

\* fs.copyFile rejects: createTempFiles rejects with it (part_001:56).
CopyFailed(s) ==
    [s EXCEPT !.pc = "ready", !.last = "stageThrew",
              !.copyFailed = @ \cup {s.k}, !.k = 0]

\* fs.rm of cleanup settled (part_001:139-145).
RmSettled(s, ok) ==
    [s EXCEPT !.pc = "ready", !.last = "cleaned", !.rmFailed = ~ok,
              !.tempFileMap = IF ok THEN {} ELSE @]

StageFrame ==
    UNCHANGED <<runVars, procVars, analyzerVars, handlerVars, cpc, fsVars,
                undeletable, sizeVars, nm, batchVars, scan, auxVars, h>>

StageInit ==
    /\ pc = "idle"
    /\ i = 0
    /\ imageFiles = <<>>
    /\ results = <<>>
    /\ pendingError = <<>>
    /\ outputPath = Null
    /\ isCancelled = FALSE
    /\ processedCount = 0
    /\ currentOutputPath = Null
    /\ tempDirectories = <<>>
    /\ tempDirCreated = FALSE
    /\ piResult = PiNone
    /\ currentProcessor = Null
    /\ handlerResult = NoResult
    /\ cpc = [c \in 1..MaxCancels |-> "idle"]
    /\ dirs = {}
    /\ outFiles = {}
    /\ tmpFile = FALSE
    /\ undeletable = {}
    /\ h = HistoryInit
    /\ inputStats = Null
    /\ outputStats = Null
    /\ stats = [kind |-> "none"]
    /\ recorded = {}
    /\ nm = NoName
    /\ chunkSize = 0
    /\ processedFiles = 0
    /\ indivI = 0
    /\ chunkResults = <<>>
    /\ codecFiles = <<>>
    /\ winPaths \in BOOLEAN
    /\ stagingDirs = {}
    /\ san = NewSanitizer
    /\ AuxIdle
    /\ scan = NewScan

\* createTempFiles up to the await of fs.mkdir (part_001:46-49).
CreateTempFiles ==
    /\ san.pc = "ready"
    /\ \E fl \in StageLists :
          san' = [san EXCEPT !.pc = "mkdir", !.imageFiles = fl,
                             !.tempFiles = <<>>, !.copyFailed = {},
                             !.processedFiles = <<>>, !.restoredFiles = <<>>]
    /\ StageFrame

\* fs.mkdir settled (part_001:49).
StageMkdirDone ==
    /\ san.pc = "mkdir"
    /\ \/ san' = StageLoop(san, 1)
       \/ san' = [san EXCEPT !.pc = "ready", !.last = "mkdirThrew"]
    /\ StageFrame

\* fs.copyFile settled (part_001:56-72).
StageCopyDone ==
    /\ san.pc = "copy"
    /\ LET name == san.imageFiles[san.k]
       IN  \/ san' = StageLoop(
                  [san EXCEPT !.tempFiles = Append(@, StagedPath(name)),
                              !.tempFileMap = MapSet(@, StagedPath(name), name)],
                  san.k + 1)
           \/ san' = CopyFailed(san)
    /\ StageFrame

\* restoreOriginalNames for what the codec made of the staged copies: some
\* of them, their paths written in the convention of the host or with
\* forward slashes (part_001:84-108).
RestoreOriginalNamesCall ==
    /\ san.pc = "ready"
    /\ san.last = "staged"
    /\ \E keep \in SUBSET DOMAIN san.tempFiles : \E unix \in BOOLEAN :
          LET sources == [m \in DOMAIN san.tempFiles |->
                             IF unix THEN UnixPath(san.tempFiles[m])
                             ELSE san.tempFiles[m]]
              given == SelectSeq([m \in DOMAIN san.tempFiles |->
                                     IF m \in keep THEN sources[m] ELSE <<>>],
                                 LAMBDA x : x # <<>>)
          IN  /\ given # <<>>
              /\ san' = RestoreLoop([san EXCEPT !.processedFiles = given,
                                                !.restoredFiles = <<>>], 1)
    /\ StageFrame

\* fs.rename of restoreOriginalNames settled (part_001:110-132).
RestoreRenameDone ==
    /\ san.pc = "rename"
    /\ LET tempInfo == CHOOSE e \in MapGet(san.tempFileMap,
                                            LookupKey(san.processedFiles[san.k])) : TRUE
           done(r) == RestoreLoop([san EXCEPT !.restoredFiles = Append(@, r)],
                                  san.k + 1)
       IN  \/ san' = done([original |-> tempInfo.originalName, success |-> TRUE,
                           compressed |-> RestoredOutputName(tempInfo.originalName),
                           error |-> <<>>])
           \/ san' = done([original |-> tempInfo.originalName, success |-> FALSE,
                           compressed |-> <<>>, error |-> ErrPlain])
    /\ StageFrame

\* cleanup up to the await of fs.rm (part_001:138-140).
CleanupCall ==
    /\ san.pc = "ready"
    /\ san.last \notin {"none", "cleaned"}
    /\ san' = [san EXCEPT !.pc = "rm"]
    /\ StageFrame

CleanupRmDone ==
    /\ san.pc = "rm"
    /\ \E ok \in BOOLEAN : san' = RmSettled(san, ok)
    /\ StageFrame

StageNext ==
    \/ CreateTempFiles
    \/ StageMkdirDone
    \/ StageCopyDone
    \/ RestoreOriginalNamesCall
    \/ RestoreRenameDone
    \/ CleanupCall
    \/ CleanupRmDone

StageSpec == StageInit /\ [][StageNext]_vars

\* C23: a descriptor whose sourcePath is the path of a staged copy, written
\* in the separator convention of the host, is found in the mapping by
\* restoreOriginalNames: its result carries the name of the original, and a
\* Success names the artifact <base of the original>.webp.
C23_StagedCopyIsRestored ==
    \A m \in DOMAIN san.restoredFiles :
        \A name \in {san.imageFiles[x] : x \in DOMAIN san.imageFiles} :
            (/\ san.processedFiles[m] = StagedPath(name)
             /\ \A other \in {san.imageFiles[x] : x \in DOMAIN san.imageFiles} :
                   StagedPath(other) = StagedPath(name) => other = name)
            => /\ san.restoredFiles[m].original = name
               /\ san.restoredFiles[m].success =>
                     san.restoredFiles[m].compressed = RestoredOutputName(name)

\* C24: when the copy of one file into the staging directory fails,
\* createTempFiles goes on: it returns, and every other file of the call is
\* staged with its mapping entry.
C24_StagingFailsPerFile ==
    (san.pc = "ready" /\ san.last \in {"staged", "stageThrew"}) =>
        /\ san.last = "staged"
        /\ \A x \in DOMAIN san.imageFiles \ san.copyFailed :
              MapGet(san.tempFileMap, StagedPath(san.imageFiles[x])) # {}

\* C25: cleanup never throws, and when it has returned the mapping is
\* empty, also when the removal of the staging directory failed.
C25_CleanupEmptiesMapping ==
    (san.pc = "ready" /\ san.last = "cleaned") => san.tempFileMap = {}

\* ================================================================ the scan
\* scanForImages (imageProcessor.js:101-148) on a folder tree.  A directory
\* holds at most MaxEntries entries and directories nest MaxDepth deep; an
\* entry is a regular file, a directory, or something else (a symbolic link),
\* and fs.readdir lists a directory in the order of EntryNames.
MaxDepth == 2
MaxEntries == 2

supportedFormats ==
    { <<".", "j", "p", "g">>, <<".", "j", "p", "e", "g">>,
      <<".", "p", "n", "g">>, <<".", "g", "i", "f">>, <<".", "s", "v", "g">>,
      <<".", "t", "i", "f", "f">>, <<".", "t", "i", "f">>,
      <<".", "b", "m", "p">>, <<".", "w", "e", "b", "p">> }

toLowerCase(str) ==
    [k \in DOMAIN str |->
        CASE str[k] = "P" -> "p"
          [] str[k] = "N" -> "n"
          [] str[k] = "G" -> "g"
          [] OTHER -> str[k]]

EntryNames ==
    << <<"a", ".", "P", "N", "G">>, <<"b", ".", "t", "x", "t">>,
       <<"d", ".", "p", "n", "g">>, <<"e">>, <<"l", ".", "j", "p", "g">> >>
Rank(name) == CHOOSE n \in DOMAIN EntryNames : EntryNames[n] = name

\* What a directory can hold that is not a directory.
LeafEntries ==
    { [name |-> EntryNames[1], kind |-> "file", entries |-> <<>>],
      [name |-> EntryNames[2], kind |-> "file", entries |-> <<>>],
      [name |-> EntryNames[5], kind |-> "other", entries |-> <<>>] }

\* The listings a directory d levels below the folder can have.
RECURSIVE Listings(_)
Listings(d) ==
    LET directories ==
            IF d >= MaxDepth THEN {}
            ELSE { [name |-> EntryNames[n], kind |-> "dir", entries |-> l] :
                       n \in {3, 4}, l \in Listings(d + 1) }
        all == LeafEntries \cup directories
    IN  { l \in UNION { [1..n -> all] : n \in 0..MaxEntries } :
            \A a, b \in DOMAIN l :
                a < b => Rank(l[a].name) < Rank(l[b].name) }

\* scanForImages throws what its catch makes of the error msg
\* (imageProcessor.js:142-147).
ScanThrew(sc, msg) ==
    [sc EXCEPT !.pc = "threw", !.pending = <<>>, !.stack = <<>>,
               !.error = ScanCatch(msg)]

\* Variant: the extension is compared as it is written.
ScannedExtension_AsWritten(name) == Extname(name)

\* path.extname(file.name).toLowerCase() (imageProcessor.js:122).
ScannedExtension(name) == toLowerCase(Extname(name))

\* The loops of scanRecursively from the entry the innermost one is at, up
\* to the next fs.readdir or the return (imageProcessor.js:114-141).
RECURSIVE ScanLoop(_, _)
ScanLoop(sc, cancelled) ==
    IF sc.stack = <<>> THEN [sc EXCEPT !.pc = "returned"]
    ELSE IF sc.stack[1].k > Len(sc.stack[1].files)
    THEN ScanLoop([sc EXCEPT !.stack = Tail(@)], cancelled)
    ELSE IF cancelled
    THEN ScanThrew(sc, <<"Scanning", "cancelled", "by user">>)
    ELSE LET file == sc.stack[1].files[sc.stack[1].k]
             fullPath == sc.stack[1].currentPath \o <<file.name>>
             ext == ScannedExtension(file.name)
             next == [sc EXCEPT !.stack[1].k = @ + 1]
         IN  IF file.kind = "file"
             THEN ScanLoop(IF ext \in supportedFormats
                           THEN [next EXCEPT !.imageFiles =
                                    Append(@, [name |-> file.name,
                                               fullPath |-> fullPath,
                                               extension |-> ext])]
                           ELSE next,
                           cancelled)
             ELSE IF file.kind = "dir"
             THEN [next EXCEPT !.pc = "readdir",
                               !.pending = <<[currentPath |-> fullPath,
                                              files |-> file.entries]>>]
             ELSE ScanLoop(next, cancelled)

ScanFrame ==
    UNCHANGED <<runVars, processedCount, currentOutputPath, tempDirectories,
                tempDirCreated, analyzerVars, handlerVars, cpc, fsVars,
                undeletable, sizeVars, nm, batchVars, san, auxVars, h>>

ScanInit ==
    /\ Constructed
    /\ BatchIdle
    /\ inputStats = Null
    /\ outputStats = Null
    /\ stats = [kind |-> "none"]
    /\ recorded = {}
    /\ nm = NoName
    /\ \E l \in Listings(0) : scan = [NewScan EXCEPT !.root = l]

\* scanForImages up to the fs.readdir of the folder
\* (imageProcessor.js:101-112, 138).
ScanForImages ==
    /\ scan.pc = "idle"
    /\ scan' = IF isCancelled
               THEN ScanThrew(scan, <<"Scanning", "cancelled", "by user">>)
               ELSE [scan EXCEPT !.pc = "readdir",
                                 !.pending = <<[currentPath |-> <<>>,
                                                files |-> scan.root]>>]
    /\ UNCHANGED isCancelled
    /\ ScanFrame

\* fs.readdir settled (imageProcessor.js:112-147).
ScanReaddirDone ==
    /\ scan.pc = "readdir"
    /\ \/ scan' = ScanLoop(
                    [scan EXCEPT !.pending = <<>>,
                                 !.stack = <<[currentPath |-> scan.pending[1].currentPath,
                                              files |-> scan.pending[1].files,
                                              k |-> 1]>> \o @],
                    isCancelled)
       \/ scan' = ScanThrew(scan, ErrPlain)
    /\ UNCHANGED isCancelled
    /\ ScanFrame

\* cancel sets the flag while fs.readdir is awaited (imageProcessor.js:577-579);
\* what else it does touches nothing the scan reads.
ScanCancel ==
    /\ scan.pc = "readdir"
    /\ ~isCancelled
    /\ isCancelled' = TRUE
    /\ UNCHANGED scan
    /\ ScanFrame

ScanNext ==
    \/ ScanForImages
    \/ ScanReaddirDone
    \/ ScanCancel

ScanSpec == ScanInit /\ [][ScanNext]_vars

\* The regular files with a supported extension below a directory.
RECURSIVE ImagesUnder(_, _)
ImagesUnder(path, listing) ==
    UNION { IF listing[k].kind = "file"
               /\ toLowerCase(Extname(listing[k].name)) \in supportedFormats
            THEN {path \o <<listing[k].name>>}
            ELSE IF listing[k].kind = "dir"
            THEN ImagesUnder(path \o <<listing[k].name>>, listing[k].entries)
            ELSE {}
            : k \in DOMAIN listing }

\* C27: scanForImages returns exactly the regular files anywhere under the
\* folder whose lowercased extension is a supported format, each once; a
\* file with another extension is never in the list.
C27_ScanFindsExactlyTheImages ==
    /\ \A k \in DOMAIN scan.imageFiles :
          toLowerCase(Extname(scan.imageFiles[k].name)) \in supportedFormats
    /\ scan.pc = "returned" =>
          /\ {scan.imageFiles[k].fullPath : k \in DOMAIN scan.imageFiles}
                = ImagesUnder(<<>>, scan.root)
          /\ Len(scan.imageFiles) = Cardinality(ImagesUnder(<<>>, scan.root))

\* The scan returned an image of the folder and one from the deepest
\* directory, written in upper case, and passed over a file that is no
\* image and a directory named like one.
C27_Witness ==
    /\ scan.pc = "returned"
    /\ \E k \in DOMAIN scan.imageFiles : Len(scan.imageFiles[k].fullPath) = 1
    /\ \E k \in DOMAIN scan.imageFiles :
          /\ Len(scan.imageFiles[k].fullPath) = MaxDepth + 1
          /\ scan.imageFiles[k].fullPath[1] = EntryNames[3]
          /\ scan.imageFiles[k].name = EntryNames[1]
    /\ \E k \in DOMAIN scan.root :
          /\ scan.root[k].kind = "dir"
          /\ \E m \in DOMAIN scan.root[k].entries :
                scan.root[k].entries[m].name = EntryNames[2]

\* C32: once cancel() is requested during a scan, no further directory is
\* read, no further file is added to the list, and the scan does not return
\* a list: it fails with the scan-cancelled error.
C32_CancelledScanFails ==
    [][ isCancelled =>
          /\ scan'.imageFiles = scan.imageFiles
          /\ scan'.pc = "readdir" => scan' = scan
          /\ scan'.pc # "returned"
          /\ scan'.pc = "threw" => scan'.error = MsgScanCancelled
      ]_vars

\* ===================================================== the rolling average
\* processSharpSequential measures every converted file and feeds the
\* duration to updateProcessingStats (imageProcessor.js:289, 321-327,
\* 498-505).  Durations are whole milliseconds; the average is computed
\* exactly, as a fraction.

MaxRun == 3        \* longest file list of a timed run
MaxDuration == 3   \* longest duration of one file, in milliseconds

Durations == 0..MaxDuration

\* a and b are the same number.
SameNumber(a, b) == a.num * b.den = b.num * a.den

Sample(t) == [num |-> t, den |-> 1]

\* avg * 0.7 + t * 0.3 (imageProcessor.js:503)
Rolling(avg, t) ==
    [num |-> 7 * avg.num + 3 * t * avg.den, den |-> 10 * avg.den]

\* updateProcessingStats (imageProcessor.js:498-505): count is
\* this.processedCount, read before the caller increments it.
UpdateProcessingStats(count, avg, t) ==
    IF count = 0 THEN Sample(t) ELSE Rolling(avg, t)

TimingFrame ==
    UNCHANGED <<pc, i, imageFiles, results, pendingError, outputPath,
                isCancelled, currentOutputPath, tempDirectories,
                tempDirCreated, analyzerVars, handlerVars, cpc, fsVars,
                undeletable, sizeVars, nm, batchVars, san, scan, conv, inv,
                ui, prog, h>>

TimingInit ==
    /\ Constructed
    /\ BatchIdle
    /\ inputStats = Null
    /\ outputStats = Null
    /\ stats = [kind |-> "none"]
    /\ recorded = {}
    /\ nm = NoName
    /\ scan = NewScan

\* processImages resets the statistics and the loop starts over a list of
\* n files (imageProcessor.js:185-187, 269-289).
TimedRunStart ==
    /\ timing.pc \in {"idle", "returned"}
    /\ \E n \in 1..MaxRun :
          timing' = [NewTiming EXCEPT !.pc = "file", !.total = n]
    /\ processedCount' = 0
    /\ TimingFrame

\* The conversion of a file returned after t milliseconds
\* (imageProcessor.js:319-327).
TimedFileDone ==
    /\ timing.pc = "file"
    /\ \E t \in Durations :
          timing' = [timing EXCEPT
                        !.avgProcessingTime =
                            UpdateProcessingStats(processedCount, @, t),
                        !.samples = @ + 1,
                        !.latest = t,
                        !.pc = IF processedCount + 1 < timing.total
                               THEN "file" ELSE "returned"]
    /\ processedCount' = processedCount + 1
    /\ TimingFrame

\* The conversion of a file threw and the run was not cancelled
\* (imageProcessor.js:341-355).
TimedFileFailed ==
    /\ timing.pc = "file"
    /\ timing' = [timing EXCEPT
                     !.pc = IF processedCount + 1 < timing.total
                            THEN "file" ELSE "returned"]
    /\ processedCount' = processedCount + 1
    /\ TimingFrame

TimingNext ==
    \/ TimedRunStart
    \/ TimedFileDone
    \/ TimedFileFailed

TimingSpec == TimingInit /\ [][TimingNext]_vars

\* C34: the first duration recorded in a run becomes the average as it is,
\* and every later one moves the average to avg * 0.7 + latest * 0.3, also
\* when files before the first converted one failed.
C34_FirstSampleSeedsAverage ==
    [][ timing'.samples = timing.samples + 1 =>
          SameNumber(timing'.avgProcessingTime,
                     IF timing.samples = 0
                     THEN Sample(timing'.latest)
                     ELSE Rolling(timing.avgProcessingTime, timing'.latest))
      ]_vars

\* ======================================================= the output paths
\* The file a conversion writes is named after the scanned file alone
\* (imageProcessor.js:119-134, 385-395, 450-460).

ExtGif == <<".", "g", "i", "f">>

\* The names found in a folder and the directories they are found in,
\* relative to the scanned folder.
ScannedNames == {<<"a">> \o ExtPng, <<"a">> \o ExtGif, <<"a", "#">> \o ExtPng}
ScannedDirs == {<<>>, <<"sub">>}

\* The records scanForImages pushes (imageProcessor.js:124-130).
ScannedFiles ==
    { [name |-> n, fullPath |-> d \o <<n>>, extension |-> Extname(n)] :
        n \in ScannedNames, d \in ScannedDirs }

\* The lists a scan returns: every file once.
ScannedLists ==
    { l \in UNION { [1..n -> ScannedFiles] : n \in 1..MaxFiles } :
        \A a, b \in DOMAIN l : a # b => l[a] # l[b] }

\* outputFilePath of processSharpClean, finalPath of processSharpSanitized
\* (imageProcessor.js:308-319, 385-387, 450-452).
OutputFilePath(dir, file) ==
    <<dir>> \o (IF needsSanitization(file.name)
                THEN SanitizedOutputName(file.name)
                ELSE CleanOutputName(file.name))

ConvFrame ==
    UNCHANGED <<runVars, procVars, analyzerVars, handlerVars, cpc, fsVars,
                undeletable, sizeVars, nm, batchVars, san, scan, timing, inv,
                ui, prog, h>>

ConvInit ==
    /\ Constructed
    /\ BatchIdle
    /\ inputStats = Null
    /\ outputStats = Null
    /\ stats = [kind |-> "none"]
    /\ recorded = {}
    /\ nm = NoName
    /\ scan = NewScan

\* scanForImages returned a list (imageProcessor.js:194-196).
ConvScanDone ==
    /\ conv.pc = "idle"
    /\ \E l \in ScannedLists :
          conv' = [conv EXCEPT !.pc = "file", !.imageFiles = l]
    /\ ConvFrame

\* The conversion of the next file ended in a Success
\* (imageProcessor.js:319-321, 393-413, 458-485): sharp wrote the file.
ConvFileDone ==
    /\ conv.pc = "file"
    /\ LET file == conv.imageFiles[Len(conv.results) + 1] IN
        conv' = [conv EXCEPT
                    !.results = Append(@,
                        [original |-> file.fullPath, success |-> TRUE,
                         finalPath |-> OutputFilePath(DerivedPath, file)]),
                    !.pc = IF Len(conv.results) + 1 < Len(conv.imageFiles)
                           THEN "file" ELSE "returned"]
    /\ ConvFrame

\* The conversion of the next file ended in a Failure
\* (imageProcessor.js:341-355).
ConvFileFailed ==
    /\ conv.pc = "file"
    /\ LET file == conv.imageFiles[Len(conv.results) + 1] IN
        conv' = [conv EXCEPT
                    !.results = Append(@,
                        [original |-> file.fullPath, success |-> FALSE,
                         finalPath |-> <<>>]),
                    !.pc = IF Len(conv.results) + 1 < Len(conv.imageFiles)
                           THEN "file" ELSE "returned"]
    /\ ConvFrame

ConvNext ==
    \/ ConvScanDone
    \/ ConvFileDone
    \/ ConvFileFailed

ConvSpec == ConvInit /\ [][ConvNext]_vars

\* C36: two different scanned files of one run that both ended in a Success
\* were written to different paths, also when they share their base name
\* across extensions or directories.
C36_SuccessesHaveDistinctOutputs ==
    \A a, b \in DOMAIN conv.results :
        (a # b /\ conv.results[a].success /\ conv.results[b].success)
            => conv.results[a].finalPath # conv.results[b].finalPath

\* ================================================= overlapping invocations
\* The main process keeps one reference, currentProcessor, for all the
\* invocations of the compress-images handler (preload.js:116-119, 206-208,
\* 212-229).

InvFrame ==
    UNCHANGED <<runVars, procVars, analyzerVars, handlerVars, cpc, fsVars,
                undeletable, sizeVars, nm, batchVars, san, scan, timing, conv,
                ui, prog, h>>

InvInit ==
    /\ Constructed
    /\ BatchIdle
    /\ inputStats = Null
    /\ outputStats = Null
    /\ stats = [kind |-> "none"]
    /\ recorded = {}
    /\ nm = NoName
    /\ scan = NewScan

InProgress == {r \in 1..MaxInvocations : inv.state[r] = "running"}

\* ipcMain.handle('compress-images') is invoked (preload.js:116-119): a new
\* processor, stored in currentProcessor.
CompressImagesInvoked(r) ==
    /\ inv.state[r] # "running"
    /\ inv' = [inv EXCEPT !.state[r] = "running",
                          !.isCancelled[r] = FALSE,
                          !.currentProcessor = r]
    /\ InvFrame

\* The invocation settles, by a return or from its catch, and its finally
\* clears the reference (preload.js:165-208).
CompressImagesSettled(r) ==
    /\ inv.state[r] = "running"
    /\ inv' = [inv EXCEPT !.state[r] = "settled",
                          !.currentProcessor = 0]
    /\ InvFrame

\* ipcMain.handle('cancel-compression') (preload.js:212-229) with cancel()
\* (imageProcessor.js:577-585); the cleanup cancel() awaits touches nothing
\* of the invocations.
CancelCompression ==
    /\ inv' = IF inv.currentProcessor # 0
              THEN [inv EXCEPT
                      !.isCancelled[inv.currentProcessor] = TRUE,
                      !.answer = [kind |-> "success",
                                  target |-> inv.currentProcessor,
                                  inProgress |-> InProgress]]
              ELSE [inv EXCEPT
                      !.answer = [kind |-> "noActive", target |-> 0,
                                  inProgress |-> InProgress]]
    /\ InvFrame

InvNext ==
    \/ \E r \in 1..MaxInvocations : CompressImagesInvoked(r)
    \/ \E r \in 1..MaxInvocations : CompressImagesSettled(r)
    \/ CancelCompression

InvSpec == InvInit /\ [][InvNext]_vars

\* C38: a cancel-compression request that arrives while some compress-images
\* invocation is in progress reaches the processor of an invocation in
\* progress and is answered success; it is answered 'No active compression
\* to cancel' only when none is in progress, also when invocations overlap.
C38_CancelReachesARunInProgress ==
    inv.answer.kind # "none" =>
        IF inv.answer.inProgress # {}
        THEN /\ inv.answer.kind = "success"
             /\ inv.answer.target \in inv.answer.inProgress
        ELSE inv.answer.kind = "noActive"

\* ============================================================ the renderer
\* The renderer registers its progress listener when its script runs and
\* startCompression removes the listeners of the channel when a compression
\* has settled (renderer.js:196-250, 380-390; preload.js:27-35).

MaxCompressions == 3   \* compressions started in one window session
MaxEvents == 4         \* progress events sent during one compression

UiFrame ==
    UNCHANGED <<runVars, procVars, analyzerVars, handlerVars, cpc, fsVars,
                undeletable, sizeVars, nm, batchVars, san, scan, timing, conv,
                inv, prog, h>>

UiInit ==
    /\ Constructed
    /\ BatchIdle
    /\ inputStats = Null
    /\ outputStats = Null
    /\ stats = [kind |-> "none"]
    /\ recorded = {}
    /\ nm = NoName
    /\ scan = NewScan

\* startCompression up to its await of compressImages (renderer.js:196-214).
StartCompression ==
    /\ ~ui.isProcessing
    /\ ui.started < MaxCompressions
    /\ ui' = [ui EXCEPT !.isProcessing = TRUE, !.isCancelling = FALSE,
                        !.section = "progress",
                        !.started = @ + 1, !.sent = 0, !.shown = 0]
    /\ UiFrame

\* The main process sends an event on 'compression-progress' during the
\* compression; ipcRenderer calls the listeners of the channel, and the
\* renderer's listener calls updateProgress unless it is cancelling
\* (preload.js:27-30, renderer.js:380-390).
CompressionProgress ==
    /\ ui.isProcessing
    /\ ui.sent < MaxEvents
    /\ ui' = [ui EXCEPT
                 !.sent = @ + 1,
                 !.shown = IF ui.listeners > 0 /\ ~ui.isCancelling
                           THEN @ + 1 ELSE @]
    /\ UiFrame

\* The cancel button (renderer.js:123-143).
CancelClicked ==
    /\ ui.isProcessing
    /\ ~ui.isCancelling
    /\ ui' = [ui EXCEPT !.isCancelling = TRUE]
    /\ UiFrame

\* compressImages settled: what follows the await, and the finally of
\* startCompression with removeAllListeners (renderer.js:214-250,
\* preload.js:33-35).
CompressionSettled ==
    /\ ui.isProcessing
    /\ \E shown \in {"success", "cancelled", "error"} :
          ui' = [ui EXCEPT !.isProcessing = FALSE, !.isCancelling = FALSE,
                           !.section = shown, !.listeners = 0]
    /\ UiFrame

\* The buttons of the result section (renderer.js:145-152, 360-377).
ResetToInitialState ==
    /\ ui.section \in {"success", "cancelled", "error"}
    /\ ui' = [ui EXCEPT !.isProcessing = FALSE, !.isCancelling = FALSE,
                        !.section = "drop"]
    /\ UiFrame

\* Something that is no folder is dropped on the drop zone
\* (renderer.js:78-107).
DropRejected ==
    /\ ui.section = "drop"
    /\ ui' = [ui EXCEPT !.section = "error"]
    /\ UiFrame

UiNext ==
    \/ StartCompression
    \/ CompressionProgress
    \/ CancelClicked
    \/ CompressionSettled
    \/ ResetToInitialState
    \/ DropRejected

UiSpec == UiInit /\ [][UiNext]_vars

\* C39: for every compression started from the UI, the first and the later
\* ones of a window session alike, an event sent on 'compression-progress'
\* while the compression is in progress and not being cancelled reaches
\* updateProgress.
C39_ProgressReachesUpdateProgress ==
    [][ (ui'.sent = ui.sent + 1 /\ ui.isProcessing /\ ~ui.isCancelling)
          => ui'.shown = ui.shown + 1
      ]_vars

\* ====================================================== the progress events
\* The events processImages and processSharpSequential hand to
\* updateProgress, in the order of the calls (imageProcessor.js:193-239,
\* 327-338, 533-542).  percent is kept as the fraction num/den.

Percent(n, d) == [num |-> n, den |-> d]

\* this.updateProgress(...) appends to the events emitted so far.
Emit(events, current, total, percent, message) ==
    events \o UpdateProgress(ProgressEvent(current, total, percent, message))

\* After the last pass of the loop: processImages counts the Success
\* results and reports the statistics step (imageProcessor.js:232-239).
ProgAfterLoop(p) ==
    IF isCancelled
    THEN [p EXCEPT !.pc = "threw"]
    ELSE [p EXCEPT !.pc = "measureOut",
                   !.events = Emit(@, p.successful, p.total, Percent(100, 1),
                                   "stats")]

\* The loop goes to its next pass or ends (imageProcessor.js:281-296);
\* count is processedCount.
ProgLoop(p, count) ==
    IF isCancelled \/ count = p.total
    THEN ProgAfterLoop(p)
    ELSE [p EXCEPT !.pc = "file"]

ProgFrame ==
    UNCHANGED <<runVars, currentOutputPath, tempDirectories, tempDirCreated,
                analyzerVars, handlerVars, cpc, fsVars, undeletable, sizeVars,
                nm, batchVars, san, scan, timing, conv, inv, ui, h>>

ProgInit ==
    /\ Constructed
    /\ BatchIdle
    /\ inputStats = Null
    /\ outputStats = Null
    /\ stats = [kind |-> "none"]
    /\ recorded = {}
    /\ nm = NoName
    /\ scan = NewScan

\* processImages up to the await of scanForImages
\* (imageProcessor.js:182-194).
ProgProcessImages ==
    /\ prog.pc = "idle"
    /\ isCancelled' = FALSE
    /\ processedCount' = 0
    /\ prog' = [NewProg EXCEPT
                   !.pc = "scan",
                   !.events = <<ProgressEvent(0, 0, Percent(0, 1), "scan")>>]
    /\ ProgFrame

\* scanForImages ended, with n files or with an error
\* (imageProcessor.js:194-211).
ProgScanDone ==
    /\ prog.pc = "scan"
    /\ \/ prog' = [prog EXCEPT !.pc = "threw"]
       \/ \E n \in 0..MaxRun :
             prog' = IF isCancelled \/ n = 0
                     THEN [prog EXCEPT !.pc = "threw"]
                     ELSE [prog EXCEPT
                             !.pc = "measureIn",
                             !.total = n,
                             !.events = Emit(@, 0, n, Percent(0, 1), "measure")]
    /\ UNCHANGED <<isCancelled, processedCount>>
    /\ ProgFrame

\* measureInputSizes returned (imageProcessor.js:211-219).
ProgMeasureInDone ==
    /\ prog.pc = "measureIn"
    /\ prog' = IF isCancelled
               THEN [prog EXCEPT !.pc = "threw"]
               ELSE [prog EXCEPT
                       !.pc = "create",
                       !.events = Emit(@, 0, prog.total, Percent(0, 1),
                                       "create")]
    /\ UNCHANGED <<isCancelled, processedCount>>
    /\ ProgFrame

\* createOutputFolder ended (imageProcessor.js:219-230, 269-296).
ProgCreateDone ==
    /\ prog.pc = "create"
    /\ \/ prog' = [prog EXCEPT !.pc = "threw"]
       \/ prog' = IF isCancelled
                  THEN [prog EXCEPT !.pc = "threw"]
                  ELSE ProgLoop(prog, processedCount)
    /\ UNCHANGED <<isCancelled, processedCount>>
    /\ ProgFrame

\* The conversion of a file returned a Success
\* (imageProcessor.js:319-339): the event of the file.
ProgFileDone ==
    /\ prog.pc = "file"
    /\ ~isCancelled
    /\ processedCount' = processedCount + 1
    /\ prog' = ProgLoop(
                 [prog EXCEPT
                    !.successful = @ + 1,
                    !.events = Emit(@, processedCount + 1, prog.total,
                                    Percent((processedCount + 1) * 100,
                                            prog.total),
                                    "file")],
                 processedCount + 1)
    /\ UNCHANGED isCancelled
    /\ ProgFrame

\* The conversion of a file threw (imageProcessor.js:341-355): a Failure
\* is counted without an event; a cancelled run leaves the loop.
ProgFileFailed ==
    /\ prog.pc = "file"
    /\ IF isCancelled
       THEN /\ prog' = ProgAfterLoop(prog)
            /\ UNCHANGED processedCount
       ELSE /\ prog' = ProgLoop(prog, processedCount + 1)
            /\ processedCount' = processedCount + 1
    /\ UNCHANGED isCancelled
    /\ ProgFrame

\* measureOutputSizes returned and processImages returns
\* (imageProcessor.js:240-254).
ProgMeasureOutDone ==
    /\ prog.pc = "measureOut"
    /\ prog' = [prog EXCEPT !.pc = "returned"]
    /\ UNCHANGED <<isCancelled, processedCount>>
    /\ ProgFrame

\* cancel() while the run is suspended in an await
\* (imageProcessor.js:577-579).
ProgCancel ==
    /\ prog.pc \in {"scan", "measureIn", "create", "file", "measureOut"}
    /\ ~isCancelled
    /\ isCancelled' = TRUE
    /\ UNCHANGED <<prog, processedCount>>
    /\ ProgFrame

ProgNext ==
    \/ ProgProcessImages
    \/ ProgScanDone
    \/ ProgMeasureInDone
    \/ ProgCreateDone
    \/ ProgFileDone
    \/ ProgFileFailed
    \/ ProgMeasureOutDone
    \/ ProgCancel

ProgSpec == ProgInit /\ [][ProgNext]_vars

\* C40: over the progress events of one sequential run, total is the same
\* in every event after the scan, current never decreases and never exceeds
\* total, and percent is current/total*100 whenever total > 0.
C40_ProgressEventsConsistent ==
    \A k \in DOMAIN prog.events :
        LET ev == prog.events[k] IN
        /\ ev.current <= ev.total
        /\ ev.total > 0
              => SameNumber(ev.percent, Percent(ev.current * 100, ev.total))
        /\ k > 1 => ev.current >= prog.events[k - 1].current
        /\ (k > 1 /\ prog.events[k - 1].message # "scan")
              => ev.total = prog.events[k - 1].total

\* C17: when the derived output path exists before the run, the path
\* createOutputFolder chooses carries the timestamp suffix and is none of
\* the directories that existed before the call, so that the run never
\* writes into a directory that was there before.
C17_StampedPathIsFresh ==
    (outputPath # Null /\ DerivedPath \in h.dirs0) =>
        /\ outputPath = StampedPath
        /\ outputPath \notin h.dirs0

====
